---------------------------- MODULE Spec2Model ----------------------------
(***************************************************************************)
(* Model of the FreeSWITCH event-socket client (hx/freeswitch), the        *)
(* revision of src/packets.go lines 54-496: Client.Connect, Shutdown,      *)
(* execute, close, setRunning and the read() goroutine, together with the  *)
(* packet classifier of src/unnamed/part_002.                              *)
(*                                                                         *)
(* All four channels of the Client (inbox, outbox, errors, reading) and    *)
(* the per-command channels are unbuffered, so a send and its receive are  *)
(* one joint step of the sender and the receiver.                          *)
(***************************************************************************)
EXTENDS Naturals, Integers, Sequences, FiniteSets, TLC

\* ------------------------------------------------------------------ bounds
\* Number of successful dials (connections, and so read() goroutines).
MaxDials == 1
\* Number of packets the server sends in all.
MaxPackets == 5
\* Number of Connect() calls made in all.
MaxCalls == 2
\* Number of packets a server that answers as expected sends in all, over
\* the sessions of one client.
MaxRedialPackets == 8

\* Number of entries a headers value holds at most.
MaxHeaders == 3
\* Number of event keys a subscription command is built for at most.
MaxKeys == 4

\* Goroutines that call Connect(), Shutdown() and execute().
ConnProcs == {"c1", "c2"}
OneConn == {"c1"}
OneSd == {"s1"}
SdProcs == {"s1", "s2"}
ExProcs == {"e1", "e2"}
Conns == 1..MaxDials

\* The callers of one kind are interchangeable, so they are named in the order
\* in which they call: the second calls only once the first has called.
SdBefore(s) == IF s = "s2" THEN {"s1"} ELSE {}
ExBefore(e) == IF e = "e2" THEN {"e1"} ELSE {}

\* ------------------------------------------------------------ packet types
\* src/unnamed/part_002 lines 80-89: the Content-Type values.  A command/reply
\* is split by reply.ok() (Reply-Text starts with +OK or not); "" is any
\* other or absent Content-Type.
ptAuthRequest == "auth/request"
ptCommandReply == "command/reply"
ptDisconnectNotice == "text/disconnect-notice"
ptResult == "api/response"
ptEventPlain == "text/event-plain"
ptOther == ""

\* src/event.go lines 40-45: the key of an event is its Event-Name and
\* Event-Subclass headers.  BACKGROUND_JOB is the key NewClient registers
\* bgJobDone for (line 133); HEARTBEAT stands for a key no call of this model
\* registers a handler for.
evBackgroundJob == "BACKGROUND_JOB"
evHeartbeat == "HEARTBEAT"

\* The keys the callers of On() and OnCustom() register handlers for, and
\* the handlers they register; bgJobDone is the handler of line 133.
OnKeys == {"CHANNEL_CREATE", "CHANNEL_ANSWER"}
EventKeys == {evBackgroundJob, evHeartbeat} \cup OnKeys
HandlerFns == {"h1", "h2"}
bgJobDone == "bgJobDone"

\* A packet on the wire: its Content-Type; for a reply, whether Reply-Text
\* starts with +OK; for an event, its key (name) and its Job-UUID header
\* (job, "" when absent).
Wire(ct, ok, name, job) == [ct |-> ct, ok |-> ok, name |-> name, job |-> job]

\* What the server may put on the wire at any time.
WireKinds ==
    { Wire(ptAuthRequest, FALSE, "", ""),
      Wire(ptCommandReply, TRUE, "", ""),
      Wire(ptCommandReply, FALSE, "", ""),
      Wire(ptResult, FALSE, "", ""),
      Wire(ptEventPlain, FALSE, evHeartbeat, ""),
      Wire(ptDisconnectNotice, FALSE, "", ""),
      Wire(ptOther, FALSE, "", "") }

NoPkt == [ct |-> "none", ok |-> FALSE, id |-> 0, name |-> "", job |-> ""]

\* The nil packet of `cmd.response <- nil` (line 261).
NilPkt == [ct |-> "nil", ok |-> FALSE, id |-> 0, name |-> "", job |-> ""]

\* The event the main loop is dispatching: its key and its Job-UUID.
NoEvt == [name |-> "", job |-> ""]

\* What execute() returns: the packet's kind (nil with an error) and err.
Result(ct, ok, err) == [ct |-> ct, ok |-> ok, err |-> err]

\* execute() has not returned.
NoRes == Result("none", FALSE, "none")

\* rawPacket.packetType()
packetType(p) == p.ct

\* A dispatch that takes a reply that is not OK for the end of the session.
castFailedReplyAsNotice(p) ==
    CASE packetType(p) = ptCommandReply /\ p.ok -> "reply"
      [] packetType(p) = ptCommandReply /\ ~p.ok -> "disconnectNotice"
      [] packetType(p) = ptEventPlain -> "inboundEvent"
      [] packetType(p) = ptResult -> "result"
      [] packetType(p) = ptDisconnectNotice -> "disconnectNotice"
      [] OTHER -> "rawPacket"

\* A dispatch that does not know events and takes them for raw packets.
castEventAsRawPacket(p) ==
    CASE packetType(p) = ptCommandReply -> "reply"
      [] packetType(p) = ptResult -> "result"
      [] packetType(p) = ptDisconnectNotice -> "disconnectNotice"
      [] OTHER -> "rawPacket"

\* A dispatch that takes a packet of unknown type for the end of the session.
castUnknownAsNotice(p) ==
    CASE packetType(p) = ptCommandReply -> "reply"
      [] packetType(p) = ptEventPlain -> "inboundEvent"
      [] packetType(p) = ptResult -> "result"
      [] OTHER -> "disconnectNotice"

\* rawPacket.cast(): the variant a packet is dispatched as.
cast(p) ==
    CASE packetType(p) = ptCommandReply -> "reply"
      [] packetType(p) = ptEventPlain -> "inboundEvent"
      [] packetType(p) = ptResult -> "result"
      [] packetType(p) = ptDisconnectNotice -> "disconnectNotice"
      [] OTHER -> "rawPacket"

\* A check that takes any packet for an OK reply.
isOkReplyAny(p) == TRUE

\* `result, ok := p.cast().(*reply); !ok || !result.ok()` negated.
isOkReply(p) == cast(p) = "reply" /\ p.ok

\* ------------------------------------------------------------------ errors
\* src/errors.go; "nil" is the nil error, EDial / EWrite / EOF / EClosed are
\* the errors of net.DialTimeout, conn.Write and the reader.
NoErr == "nil"

VARIABLES
    running,    \* c.running
    control,    \* c.control: the goroutine holding the mutex, or "free"
    Hostname,   \* c.Hostname: "" or a host name
    conn,       \* c.conn: 0 (nil) or the connection last dialled
    sock,       \* per connection: "unused", "open", "closed" (by conn.Close())
    pktCount,   \* packets the server has sent so far
    cpc,        \* per Connect caller: where it is in Connect()
    cerr,       \* per Connect caller: the local err
    cres,       \* per Connect caller: the value Connect() returned
    cmdFiFo,    \* per Connect caller: the local cmdFiFo
    calls,      \* Connect() calls made so far
    rdpc,       \* per read() goroutine: where it is
    rdconn,     \* per read() goroutine: the connection it reads
    rdpkt,      \* per read() goroutine: the packet it is about to hand over
    rderr,      \* per read() goroutine: its err
    sdpc,       \* per Shutdown caller: where it is in close()
    expc,       \* per execute caller: where it is in execute()
    exresp,     \* per execute caller: what arrived on cmd.response
    exres,      \* per execute caller: the (result, err) execute returned
    respCount,  \* per execute caller: sends made on its cmd.response
    cevt,       \* per Connect caller: the event it is dispatching
    qpc,        \* per caller: where it is in Query(), and what Query returned
    jobs,       \* c.jobs: the job ids in the table (a Query's id is its caller)
    jchan,      \* per job: the values sent on its result channel so far
    bgLookup,   \* per Job-UUID: bgJobDone goroutines started, before line 417
    bgSend,     \* per job: bgJobDone goroutines holding its channel (line 424)
    handlers,   \* c.handlers: per event key, the list of its handlers
    opc,        \* per caller: where it is in on()
    okey,       \* per caller: the key it registers a handler for
    ofn,        \* per caller: the handler it registers
    ofirst,     \* per caller: !alreadyHandled as on() computed it
    hrun,       \* per handler: its goroutines started and not yet returned
    batch,      \* per Connect caller: the keys named in the subscription
                \* command of its handshake, while the session lasts
    hsTaken,    \* per Connect caller: the packets its handshake has taken
                \* from the inbox, while the session lasts
    PreventSocketBlocking,  \* c.PreventSocketBlocking
    xpc,        \* per caller: where it is in Execute()
    xres,       \* per caller: the (result, err) Execute() returned
    hdr,        \* a headers value: the list of its (name, value) entries
    hop,        \* the operation last applied to hdr
    hprev,      \* what hdr was before that operation
    hlog,       \* per name in lower case: the values added under the name
                \* and not deleted since, in the order they were added
    subIn,      \* a list of event keys
    subCmd,     \* eventsSubscriptionCommand(subIn...)
    evRaw,      \* an Event: the body of its raw packet, "none" before there
                \* is an event
    ev,         \* the Event's fields headers (nil or a list) and body
    evParses,   \* how often read() has parsed the raw body
    evOut,      \* the method last called on the Event and what it returned
    evRef,      \* the headers the first parse produced, with the Set calls
                \* made since applied to them
    \* history, read by the properties only
    sdWon,      \* per Connect caller: a Shutdown won the CAS during this call
    pushes,     \* Shutdown CAS wins since the flag was last set
    accepted,   \* per Connect caller: the commands its loop accepted, in order
    deliv,      \* per Connect caller: the <<command, packet>> it delivered
    dropped,    \* per Connect caller: the packets its loop discarded
    misframed,  \* the packets read with a framing anomaly
    outlived,   \* the callers that were in execute()'s select during a drain
    observing   \* whether dropped and outlived are recorded

vars == <<running, control, Hostname, conn, sock, pktCount, cpc, cerr, cres,
          cmdFiFo, calls, rdpc, rdconn, rdpkt, rderr, sdpc, expc, exresp,
          exres, respCount, sdWon, pushes, accepted, deliv, dropped, misframed,
          outlived, observing, cevt, qpc, jobs,
          jchan, bgLookup, bgSend, handlers, opc, okey, ofn, ofirst, hrun,
          batch, hsTaken, PreventSocketBlocking, xpc, xres, hdr, hop,
          hprev, hlog, subIn, subCmd, evRaw, ev, evParses, evOut, evRef>>

connVars == <<cpc, cerr, cres, cmdFiFo, calls>>
readVars == <<rdpc, rdconn, rdpkt, rderr>>
execVars == <<expc, exresp, exres, respCount>>
histVars == <<sdWon, pushes, accepted, deliv, dropped, misframed, outlived>>
loopHist == <<accepted, deliv, dropped, misframed, outlived>>
jobVars == <<qpc, jobs, jchan, bgLookup, bgSend>>
onVars == <<handlers, opc, okey, ofn, ofirst>>
hdlVars == <<onVars, hrun>>
hsHist == <<batch, hsTaken>>
xVars == <<PreventSocketBlocking, xpc, xres>>
clientVars == <<running, control, Hostname, conn, sock, pktCount, connVars,
                readVars, sdpc, execVars, histVars, cevt, jobVars, hdlVars,
                hsHist, xVars, observing>>
hdrVars == <<hdr, hop, hprev, hlog>>
subVars == <<subIn, subCmd>>
evVars == <<evRaw, ev, evParses, evOut, evRef>>
libVars == <<hdrVars, subVars, evVars, observing>>
apiVars == <<cevt, jobVars, hdlVars, hsHist, xVars, libVars>>

\* The Job-UUID values an event may carry: a job's id or none.
JobIds == ExProcs \cup {""}

\* ------------------------------------------------------------------ headers
\* src/headers.go.  Header names as callers and the server write them, two
\* spellings of each of two names, and header values.
HdrNames == {"foo", "Foo", "val", "VAL"}
HdrValues == {"bar", "baz"}

\* strings.ToLower on the names above.
ToLower(n) ==
    CASE n \in {"foo", "Foo"} -> "foo"
      [] n \in {"val", "VAL"} -> "val"
      [] n \in {"Event-Name", "event-name"} -> "event-name"
      [] n = "Event-Subclass" -> "event-subclass"
      [] n = "Job-UUID" -> "job-uuid"
      [] n = "Content-Length" -> "content-length"
      [] OTHER -> n

LowerNames == {ToLower(n) : n \in HdrNames}

\* A comparison of names that tells upper case from lower case.
matchNameExact(e, name) == name = e.name

\* Lines 92-94, header.matchName.
matchName(e, name) == ToLower(name) = ToLower(e.name)

\* Lines 18-21, headers.add: append(*h, &header{name, value}).
add(h, name, value) == Append(h, [name |-> name, value |-> value])

\* Lines 50-57, headers.getAll: the loop appends the value of each matching
\* entry, front to back.
RECURSIVE getAll(_, _)
getAll(h, name) ==
    IF h = <<>> THEN <<>>
    ELSE IF matchName(Head(h), name)
         THEN <<Head(h).value>> \o getAll(Tail(h), name)
         ELSE getAll(Tail(h), name)

\* A lookup that returns the value of the last matching entry.
RECURSIVE getLast(_, _)
getLast(h, name) ==
    IF h = <<>> THEN ""
    ELSE IF matchName(h[Len(h)], name) THEN h[Len(h)].value
         ELSE getLast(SubSeq(h, 1, Len(h) - 1), name)

\* Lines 28-35, headers.get: the value of the first matching entry, or "".
RECURSIVE get(_, _)
get(h, name) ==
    IF h = <<>> THEN ""
    ELSE IF matchName(Head(h), name) THEN Head(h).value
         ELSE get(Tail(h), name)

\* Lines 41-45: the loop that rebuilds the list from the entries that do
\* not match.
RECURSIVE delLoop(_, _)
delLoop(o, name) ==
    IF o = <<>> THEN <<>>
    ELSE IF ~matchName(Head(o), name)
         THEN <<Head(o)>> \o delLoop(Tail(o), name)
         ELSE delLoop(Tail(o), name)

\* Lines 37-48, headers.del: the list is rebuilt only if an entry matches.
del(h, name) ==
    IF Len(getAll(h, name)) > 0 THEN delLoop(h, name) ELSE h

\* A set that appends without deleting.
setKeepingOld(h, name, value) == add(h, name, value)

\* Lines 23-26, headers.set: del, then add.
set(h, name, value) == add(del(h, name), name, value)

NoOp == [op |-> "none", name |-> "", value |-> ""]

\* h.add(name, value) on a list with room for one more entry.
HdrAdd(n, v) ==
    /\ Len(hdr) < MaxHeaders
    /\ hdr' = add(hdr, n, v)
    /\ hprev' = hdr
    /\ hop' = [op |-> "add", name |-> n, value |-> v]
    /\ hlog' = [hlog EXCEPT ![ToLower(n)] = Append(@, v)]
    /\ UNCHANGED <<clientVars, subVars, evVars>>

\* h.set(name, value)
HdrSet(n, v) ==
    /\ Len(set(hdr, n, v)) <= MaxHeaders
    /\ hdr' = set(hdr, n, v)
    /\ hprev' = hdr
    /\ hop' = [op |-> "set", name |-> n, value |-> v]
    /\ hlog' = [hlog EXCEPT ![ToLower(n)] = <<v>>]
    /\ UNCHANGED <<clientVars, subVars, evVars>>

\* h.del(name)
HdrDel(n) ==
    /\ hdr' = del(hdr, n)
    /\ hprev' = hdr
    /\ hop' = [op |-> "del", name |-> n, value |-> ""]
    /\ hlog' = [hlog EXCEPT ![ToLower(n)] = <<>>]
    /\ UNCHANGED <<clientVars, subVars, evVars>>

\* -------------------------------------------------------------- utilities
\* src/event.go lines 13-16: EventName.  The keys On() makes of an event
\* name (line 319) and OnCustom() of a subclass (line 324).
Key(name, subclass) == [Name |-> name, Subclass |-> subclass]

SubKeys ==
    { Key("HEARTBEAT", ""), Key("CHANNEL_CREATE", ""),
      Key("CUSTOM", "sofia::register"), Key("CUSTOM", "conference::create") }

\* src/event.go lines 27-29, EventName.IsCustom.
IsCustom(k) == k.Subclass # ""

\* src/utilities.go lines 34-40: the loop over eventNames, which appends
\* the subclass of a custom key to custom and the name of any other to normal.
RECURSIVE subscriptionLoop(_, _, _)
subscriptionLoop(names, normal, custom) ==
    IF names = <<>> THEN [normal |-> normal, custom |-> custom]
    ELSE IF IsCustom(Head(names))
         THEN subscriptionLoop(Tail(names), normal,
                               Append(custom, Head(names).Subclass))
         ELSE subscriptionLoop(Tail(names), Append(normal, Head(names).Name),
                               custom)

\* A command that names the keys one by one in the order of the input, a
\* custom key as CUSTOM and its subclass.
RECURSIVE eventsSubscriptionCommandInOrder(_)
eventsSubscriptionCommandInOrder(eventNames) ==
    IF eventNames = <<>> THEN <<"events", "plain", "all">>
    ELSE LET k == eventNames[Len(eventNames)]
             front == SubSeq(eventNames, 1, Len(eventNames) - 1)
             cmd == IF front = <<>> THEN <<"events", "plain">>
                    ELSE eventsSubscriptionCommandInOrder(front)
         IN IF IsCustom(k) THEN cmd \o <<"CUSTOM", k.Subclass>>
            ELSE Append(cmd, k.Name)

\* src/utilities.go lines 27-49, eventsSubscriptionCommand.
eventsSubscriptionCommand(eventNames) ==
    IF Len(eventNames) > 0
    THEN LET l == subscriptionLoop(eventNames, <<>>, <<>>)
         IN <<"events", "plain">> \o l.normal \o
                (IF Len(l.custom) > 0 THEN <<"CUSTOM">> \o l.custom
                                      ELSE <<>>)
    ELSE <<"events", "plain", "all">>

\* One more key is put at the end of the list the command is built for.
SubAppend(k) ==
    /\ Len(subIn) < MaxKeys
    /\ subIn' = Append(subIn, k)
    /\ subCmd' = eventsSubscriptionCommand(Append(subIn, k))
    /\ UNCHANGED <<clientVars, hdrVars, evVars>>

\* ------------------------------------------------------------------- Event
\* src/event.go.  The body of an event's raw packet is a list of lines and
\* the text after them: a header line has a name and a percent-escaped
\* value, "blank" ends the headers, "bad" is a line without a colon.  A body
\* without a blank line ends with the last header (io.EOF).
HdrLine(name, value) == [kind |-> "header", name |-> name, value |-> value]
BlankLine == [kind |-> "blank", name |-> "", value |-> ""]
BadLine == [kind |-> "bad", name |-> "", value |-> "garbage"]

RawBodies ==
    [ job |-> [lines |-> << HdrLine("Event-Name", "BACKGROUND_JOB"),
                            HdrLine("Job-UUID", "a%20b"),
                            HdrLine("Content-Length", "5"), BlankLine >>,
               rest |-> "hello"],
      eof |-> [lines |-> << HdrLine("Event-Name", "HEARTBEAT"),
                            HdrLine("Job-UUID", "%zz") >>,
               rest |-> ""],
      empty |-> [lines |-> <<>>, rest |-> ""],
      bad |-> [lines |-> << HdrLine("Event-Name", "HEARTBEAT"), BadLine >>,
               rest |-> ""] ]

\* url.PathUnescape on the values above; `value, _ = url.PathUnescape(value)`
\* (line 84 of src/headers.go) leaves "" when the value cannot be unescaped.
PathUnescape(v) ==
    CASE v = "a%20b" -> "a b"
      [] v = "%zz" -> ""
      [] OTHER -> v

\* url.PathEscape on the values a header can hold.
PathEscape(v) ==
    CASE v = "a b" -> "a%20b"
      [] OTHER -> v

\* strconv.Atoi on the values above: the number, or 0 with an error.
Atoi(v) ==
    CASE v = "5" -> 5
      [] v = "2" -> 2
      [] OTHER -> 0

\* The bodies SetBody is called with, len() of them, and strconv.Itoa of
\* those lengths.
BodyValues == {"", "hello", "xy"}

ByteLen(v) ==
    CASE v = "hello" -> 5
      [] v = "xy" -> 2
      [] OTHER -> 0

Itoa(n) ==
    CASE n = 5 -> "5"
      [] n = 2 -> "2"
      [] OTHER -> "0"

\* textproto.ReadMIMEHeader (line 115): the header lines up to the blank
\* line or the end of the body, or the error of a line without a colon.
RECURSIVE ReadMIMEHeader(_, _)
ReadMIMEHeader(lines, got) ==
    IF lines = <<>> THEN [err |-> "EOF", mh |-> got]
    ELSE IF Head(lines).kind = "blank" THEN [err |-> "nil", mh |-> got]
    ELSE IF Head(lines).kind = "bad"
         THEN [err |-> "malformed MIME header line: " \o Head(lines).value,
               mh |-> got]
    ELSE ReadMIMEHeader(Tail(lines),
                        Append(got, [name |-> Head(lines).name,
                                     value |-> Head(lines).value]))

\* The orders in which `for name, values := range mh` (src/headers.go line
\* 82) can visit the entries of the map: any order of the names, the values
\* of one name in the order they were read.
MapOrders(mh) ==
    { [i \in 1..Len(mh) |-> mh[f[i]]] :
        f \in { g \in [1..Len(mh) -> 1..Len(mh)] :
                  /\ \A i, j \in 1..Len(mh) : i # j => g[i] # g[j]
                  /\ \A i, j \in 1..Len(mh) :
                        (i < j /\ ToLower(mh[g[i]].name) =
                                      ToLower(mh[g[j]].name)) => g[i] < g[j] } }

\* src/headers.go lines 81-90 and 112-116, loadHeaders(mh, true): the
\* entries in the order the map is visited, their values unescaped.
loadHeaders(ordered) ==
    [i \in 1..Len(ordered) |->
        [name |-> ordered[i].name, value |-> PathUnescape(ordered[i].value)]]

\* An Event whose headers field is nil: as LoadEvent or the reader makes it.
NoHeaders == [nil |-> TRUE, list |-> <<>>, body |-> ""]

\* A read() that parses the raw body every time it is called.
needsParseAlways(e) == TRUE

\* Line 113: if e.headers == nil
needsParse(e) == e.nil

\* Lines 114-125: what the parse of raw body r makes of the Event.  The
\* headers are not nil afterwards, even with no header line.
ParseOutcomes(r) ==
    LET res == ReadMIMEHeader(r.lines, <<>>)
    IN IF res.err \in {"nil", "EOF"}
       THEN { [nil |-> FALSE, list |-> h,
               body |-> IF Atoi(get(h, "Content-Length")) > 0
                        THEN r.rest ELSE ""] :
                h \in {loadHeaders(o) : o \in MapOrders(res.mh)} }
       ELSE { [nil |-> FALSE,
               list |-> <<[name |-> "Event-Name", value |-> res.err]>>,
               body |-> ""] }

\* Lines 112-127, Event.read: the Events it can leave, each with the number
\* of parses it took.
ReadOutcomes(e, r) ==
    IF needsParse(e)
    THEN {[e |-> o, parsed |-> 1] : o \in ParseOutcomes(r)}
    ELSE {[e |-> e, parsed |-> 0]}

\* headers.escapedString() (src/headers.go lines 74-79 and 102-110).
escapedString(h) ==
    [i \in 1..Len(h) |-> [name |-> h[i].name, value |-> PathEscape(h[i].value)]]

EvNames == {"Event-Name", "event-name", "Job-UUID"}
EvValues == {"x"}
NoOut == [op |-> "none", name |-> "", res |-> <<>>]

\* What the methods return, as values of one kind.
StrRes(str) == <<"string", str>>

\* An Event is made of a raw packet (src/unnamed/part_002 line 114).
EvLoad(r) ==
    /\ evRaw = "none"
    /\ evRaw' = r
    /\ UNCHANGED <<ev, evParses, evOut, evRef>>
    /\ UNCHANGED <<clientVars, hdrVars, subVars>>

\* The reference headers after a read(): those of the first parse.
RefAfterRead(o) == IF evParses = 0 /\ o.parsed = 1 THEN o.e.list ELSE evRef

\* Lines 49-55, Event.Get.
EvGet(n) ==
    /\ evRaw # "none"
    /\ \E o \in ReadOutcomes(ev, RawBodies[evRaw]) :
        /\ ev' = o.e
        /\ evParses' = evParses + o.parsed
        /\ evRef' = RefAfterRead(o)
        /\ evOut' = [op |-> "Get", name |-> n,
                     res |-> StrRes(IF o.e.nil THEN "" ELSE get(o.e.list, n))]
    /\ UNCHANGED evRaw
    /\ UNCHANGED <<clientVars, hdrVars, subVars>>

\* Lines 40-45, Event.Name: Get("Event-Name") and Get("Event-Subclass").
EvName ==
    /\ evRaw # "none"
    /\ \E o \in ReadOutcomes(ev, RawBodies[evRaw]) :
        /\ ev' = o.e
        /\ evParses' = evParses + o.parsed
                           + IF needsParse(o.e) THEN 1 ELSE 0
        /\ evRef' = RefAfterRead(o)
        /\ evOut' = [op |-> "Name", name |-> "",
                     res |-> <<"key", get(o.e.list, "Event-Name"),
                               get(o.e.list, "Event-Subclass")>>]
    /\ UNCHANGED evRaw
    /\ UNCHANGED <<clientVars, hdrVars, subVars>>

\* Lines 58-67, Event.Set with a value that is not empty.
EvSet(n, v) ==
    /\ evRaw # "none"
    /\ \E o \in ReadOutcomes(ev, RawBodies[evRaw]) :
        /\ ev' = [o.e EXCEPT !.nil = FALSE, !.list = set(o.e.list, n, v)]
        /\ evParses' = evParses + o.parsed
        /\ evRef' = set(RefAfterRead(o), n, v)
        /\ evOut' = [op |-> "Set", name |-> n, res |-> StrRes(v)]
    /\ UNCHANGED evRaw
    /\ UNCHANGED <<clientVars, hdrVars, subVars>>

\* Lines 89-92, Event.Body.
EvBody ==
    /\ evRaw # "none"
    /\ \E o \in ReadOutcomes(ev, RawBodies[evRaw]) :
        /\ ev' = o.e
        /\ evParses' = evParses + o.parsed
        /\ evRef' = RefAfterRead(o)
        /\ evOut' = [op |-> "Body", name |-> "", res |-> StrRes(o.e.body)]
    /\ UNCHANGED evRaw
    /\ UNCHANGED <<clientVars, hdrVars, subVars>>

\* Lines 107-110, Event.String: the escaped headers, an empty line, and
\* Body(), which calls read() again.
EvString ==
    /\ evRaw # "none"
    /\ \E o \in ReadOutcomes(ev, RawBodies[evRaw]) :
        /\ ev' = o.e
        /\ evParses' = evParses + o.parsed
                           + IF needsParse(o.e) THEN 1 ELSE 0
        /\ evRef' = RefAfterRead(o)
        /\ evOut' = [op |-> "String", name |-> "",
                     res |-> <<"text", escapedString(o.e.list), o.e.body>>]
    /\ UNCHANGED evRaw
    /\ UNCHANGED <<clientVars, hdrVars, subVars>>

\* Lines 70-76, Event.SetBody: nothing is done if value equals the body
\* field as it is before read(); otherwise read(), Set("Content-Length", ...)
\* with the length of value, which is never an empty string, and the body
\* field is assigned.
EvSetBody(v) ==
    /\ evRaw # "none"
    /\ IF v # ev.body
       THEN \E o \in ReadOutcomes(ev, RawBodies[evRaw]) :
               /\ ev' = [o.e EXCEPT
                            !.nil = FALSE,
                            !.list = set(o.e.list, "Content-Length",
                                         Itoa(ByteLen(v))),
                            !.body = v]
               /\ evParses' = evParses + o.parsed
               /\ evRef' = set(RefAfterRead(o), "Content-Length",
                               Itoa(ByteLen(v)))
       ELSE UNCHANGED <<ev, evParses, evRef>>
    /\ evOut' = [op |-> "SetBody", name |-> "", res |-> StrRes(v)]
    /\ UNCHANGED evRaw
    /\ UNCHANGED <<clientVars, hdrVars, subVars>>

\* A program works on a headers value, empty at first, builds the
\* subscription command of a list of keys, empty at first, and has no Event
\* yet.
InitLib ==
    /\ evRaw = "none"
    /\ ev = NoHeaders
    /\ evParses = 0
    /\ evOut = NoOut
    /\ evRef = <<>>
    /\ subIn = <<>>
    /\ subCmd = eventsSubscriptionCommand(<<>>)
    /\ hdr = <<>>
    /\ hop = NoOp
    /\ hprev = <<>>
    /\ hlog = [l \in LowerNames |-> <<>>]

\* Execute() has not returned.
NoXres == [result |-> <<"none", "">>, err |-> "none"]

\* NewClient(): src/packets.go lines 119-136, with the host name the caller
\* may have set; all but the field PreventSocketBlocking.
InitFields ==
    /\ running = 0
    /\ control = "free"
    /\ Hostname \in {"", "localhost"}
    /\ conn = 0
    /\ sock = [k \in Conns |-> "unused"]
    /\ pktCount = 0
    /\ cpc = [c \in ConnProcs |-> "idle"]
    /\ cerr = [c \in ConnProcs |-> NoErr]
    /\ cres = [c \in ConnProcs |-> "none"]
    /\ cmdFiFo = [c \in ConnProcs |-> <<>>]
    /\ calls = 0
    /\ rdpc = [r \in Conns |-> "none"]
    /\ rdconn = [r \in Conns |-> 0]
    /\ rdpkt = [r \in Conns |-> NoPkt]
    /\ rderr = [r \in Conns |-> NoErr]
    /\ sdpc = [s \in SdProcs |-> "idle"]
    /\ expc = [e \in ExProcs |-> "idle"]
    /\ exresp = [e \in ExProcs |-> NoPkt]
    /\ exres = [e \in ExProcs |-> NoRes]
    /\ respCount = [e \in ExProcs |-> 0]
    /\ sdWon = [c \in ConnProcs |-> FALSE]
    /\ pushes = 0
    /\ accepted = [c \in ConnProcs |-> <<>>]
    /\ deliv = [c \in ConnProcs |-> <<>>]
    /\ dropped = [c \in ConnProcs |-> {}]
    /\ misframed = {}
    /\ outlived = {}
    /\ cevt = [c \in ConnProcs |-> NoEvt]
    /\ qpc = [e \in ExProcs |-> "none"]
    /\ jobs = {}
    /\ jchan = [e \in ExProcs |-> <<>>]
    /\ bgLookup = [j \in JobIds |-> 0]
    /\ bgSend = [e \in ExProcs |-> 0]
    /\ handlers = [k \in EventKeys |->
                      IF k = evBackgroundJob THEN <<bgJobDone>> ELSE <<>>]
    /\ opc = [e \in ExProcs |-> "none"]
    /\ okey = [e \in ExProcs |-> ""]
    /\ ofn = [e \in ExProcs |-> ""]
    /\ ofirst = [e \in ExProcs |-> FALSE]
    /\ hrun = [h \in HandlerFns |-> 0]
    /\ batch = [c \in ConnProcs |-> {}]
    /\ hsTaken = [c \in ConnProcs |-> <<>>]
    /\ xpc = [e \in ExProcs |-> "none"]
    /\ xres = [e \in ExProcs |-> NoXres]

\* NewClient() leaves PreventSocketBlocking false.
Init ==
    InitFields /\ InitLib /\ PreventSocketBlocking = FALSE /\ observing = FALSE

\* The same client, watched: the properties get the record of what its main
\* loops discard.
InitObserving ==
    InitFields /\ InitLib /\ PreventSocketBlocking = FALSE /\ observing = TRUE

\* The caller may set the field before it uses the client.
InitAnyFlag ==
    InitFields /\ InitLib /\ PreventSocketBlocking \in BOOLEAN
        /\ observing = FALSE


\* ------------------------------------------------------------- primitives
\* A setRunning that reports a change whatever the flag was (a plain store in
\* place of the compare-and-swap).
setRunningAlways(to) == TRUE

\* setRunning(running): atomic.CompareAndSwapInt32(&c.running, old, 1-old)
\* with old = 0 when running is true and 1 when it is false.  Whether the swap
\* changed the flag ...
setRunningChanged(to) == running = (IF to THEN 0 ELSE 1)

\* ... and the flag after it.
setRunningValue(to) ==
    IF setRunningChanged(to) THEN (IF to THEN 1 ELSE 0) ELSE running

\* A main loop that answers the newest command first.
DequeueNewest(q) == [cmd |-> q[Len(q)], rest |-> SubSeq(q, 1, Len(q) - 1)]

\* The command the main loop answers next and the queue it keeps:
\* cmd := cmdFiFo[0]; cmdFiFo = cmdFiFo[1:]
Dequeue(q) == [cmd |-> Head(q), rest |-> Tail(q)]

\* An exit path that skips the oldest command of the FIFO.
CancelSetButOldest(q) == {q[i] : i \in 2..Len(q)}

\* The commands the exit path cancels: for _, cmd := range cmdFiFo
CancelSet(q) == {q[i] : i \in 1..Len(q)}

\* conn.Write on connection k: fails on a closed connection, and may fail on
\* an open one (the peer reset it).
WriteOutcomes(k) == IF sock[k] = "open" THEN {NoErr, "EWrite"} ELSE {"EWrite"}

\* A receive from c.errors takes the error of one goroutine blocked in
\* `c.errors <- err` inside close(): a Shutdown caller ...
TakeShutdownErr(s) ==
    /\ sdpc[s] = "push"
    /\ sdpc' = [sdpc EXCEPT ![s] = "done"]

\* ... or a reader, which goes on to signal c.reading (lines 488-489).
TakeReaderErr(r) ==
    /\ rdpc[r] = "push"
    /\ rdpc' = [rdpc EXCEPT ![r] = "signal"]
    /\ rderr' = [rderr EXCEPT ![r] = NoErr]

\* The reader's side of a receive from c.inbox (line 485): read() loops
\* while its err is nil (line 473), and goes to close(err) otherwise.
InboxTaken(r) ==
    /\ rdpc[r] = "send"
    /\ rdpc' = [rdpc EXCEPT ![r] = IF rderr[r] = NoErr THEN "read" ELSE "close"]
    /\ rdpkt' = [rdpkt EXCEPT ![r] = NoPkt]
    /\ UNCHANGED <<rdconn, rderr>>

Executing(c) == cpc[c] \notin {"idle", "done"}

\* ---------------------------------------------------------------- Connect
\* Lines 141-152: lock, the running check, the hostname check.  A caller
\* blocked on the mutex is one whose step is not enabled.
ConnectEnter(c) ==
    /\ cpc[c] \in {"idle", "done"}
    /\ calls < MaxCalls
    /\ control = "free"
    /\ calls' = calls + 1
    /\ cerr' = [cerr EXCEPT ![c] = NoErr]
    /\ running' = setRunningValue(TRUE)
    /\ sdWon' = [sdWon EXCEPT ![c] = FALSE]
    /\ IF ~setRunningChanged(TRUE)
       THEN /\ cpc' = [cpc EXCEPT ![c] = "done"]
            /\ cres' = [cres EXCEPT ![c] = "EAlreadyConnected"]
            /\ UNCHANGED <<control, pushes>>
       ELSE /\ pushes' = 0
            /\ IF Hostname = ""
               THEN /\ cpc' = [cpc EXCEPT ![c] = "done"]
                    /\ cres' = [cres EXCEPT ![c] = "EBlankHostname"]
                    /\ UNCHANGED control
               ELSE /\ cpc' = [cpc EXCEPT ![c] = "dial"]
                    /\ cres' = [cres EXCEPT ![c] = "none"]
                    /\ control' = c
    /\ UNCHANGED <<Hostname, conn, sock, pktCount, cmdFiFo, readVars, sdpc,
                   execVars, loopHist>>
    /\ UNCHANGED apiVars

\* Line 155, dial succeeds: c.conn is set; line 159: go c.read().
DialOk(c) ==
    /\ cpc[c] = "dial"
    /\ \E k \in Conns :
        /\ sock[k] = "unused"
        /\ \A j \in Conns : j < k => sock[j] # "unused"
        /\ conn' = k
        /\ sock' = [sock EXCEPT ![k] = "open"]
        /\ rdpc' = [rdpc EXCEPT ![k] = "start"]
    /\ cpc' = [cpc EXCEPT ![c] = "hs1"]
    /\ UNCHANGED <<running, control, Hostname, pktCount, cerr, cres, cmdFiFo,
                   calls, rdconn, rdpkt, rderr, sdpc, execVars,
                   histVars>>
    /\ UNCHANGED apiVars

\* Line 155 in a later Connect call: the dial succeeds again.  The new
\* connection and its read() goroutine take the place of a connection that
\* is closed and whose read() has ended.
DialOkAgain(c) ==
    /\ cpc[c] = "dial"
    /\ \E k \in Conns :
        /\ sock[k] = "closed"
        /\ rdpc[k] = "done"
        /\ conn' = k
        /\ sock' = [sock EXCEPT ![k] = "open"]
        /\ rdpc' = [rdpc EXCEPT ![k] = "start"]
    /\ cpc' = [cpc EXCEPT ![c] = "hs1"]
    /\ UNCHANGED <<running, control, Hostname, pktCount, cerr, cres, cmdFiFo,
                   calls, rdconn, rdpkt, rderr, sdpc, execVars,
                   histVars>>
    /\ UNCHANGED apiVars

\* Line 155 fails; lines 299-307: c.setRunning(false), result ignored, and
\* the dial error is returned.
DialFail(c) ==
    /\ cpc[c] = "dial"
    /\ running' = setRunningValue(FALSE)
    /\ cpc' = [cpc EXCEPT ![c] = "done"]
    /\ cres' = [cres EXCEPT ![c] = "EDial"]
    /\ control' = "free"
    /\ UNCHANGED <<Hostname, conn, sock, pktCount, cerr, cmdFiFo, calls,
                   readVars, sdpc, execVars, histVars>>
    /\ UNCHANGED apiVars

\* Where Connect goes after a handshake step that left err.
AfterHandshake(c, err, next) ==
    /\ cerr' = [cerr EXCEPT ![c] = err]
    /\ cpc' = [cpc EXCEPT ![c] = IF err = NoErr THEN next ELSE "unrun"]

\* The handshake took packet p and was left with err: p is remembered as long
\* as the handshake, and then the session, goes on.
HandshakeTook(c, p, err) ==
    hsTaken' = [hsTaken EXCEPT ![c] =
                  IF err = NoErr THEN Append(@, [ct |-> p.ct, ok |-> p.ok])
                                 ELSE <<>>]

\* Lines 165-171: the first packet must be auth/request; then write auth.
HsAuthRequest(c, r) ==
    /\ cpc[c] = "hs1"
    /\ InboxTaken(r)
    /\ IF packetType(rdpkt[r]) = ptAuthRequest
       THEN \E w \in WriteOutcomes(conn) :
               /\ AfterHandshake(c, w, "hs2")
               /\ HandshakeTook(c, rdpkt[r], w)
       ELSE /\ AfterHandshake(c, "EUnexpectedResponse", "hs2")
            /\ HandshakeTook(c, rdpkt[r], "EUnexpectedResponse")
    /\ UNCHANGED <<running, control, Hostname, conn, sock, pktCount, cres,
                   cmdFiFo, calls, sdpc, execVars, histVars>>
    /\ UNCHANGED <<cevt, jobVars, hdlVars, batch, xVars, libVars>>

\* Lines 172-173, 183-184, 202-203: the one handshake timer fires.
HsTimeout(c) ==
    /\ cpc[c] \in {"hs1", "hs2", "hs3"}
    /\ AfterHandshake(c, "ETimeout", "hs1")
    /\ batch' = [batch EXCEPT ![c] = {}]
    /\ hsTaken' = [hsTaken EXCEPT ![c] = <<>>]
    /\ UNCHANGED <<running, control, Hostname, conn, sock, pktCount, cres,
                   cmdFiFo, calls, readVars, sdpc, execVars,
                   histVars>>
    /\ UNCHANGED <<cevt, jobVars, hdlVars, xVars, libVars>>

\* Lines 190-193: the names of the subscription command are the keys of
\* c.handlers, which are the keys a handler was appended for.
HandledKeys(hs) == {k \in EventKeys : Len(hs[k]) > 0}

\* Lines 177-196: the auth reply; c.handlers always holds BACKGROUND_JOB
\* (line 133), so the subscription command is always written.
HsAuthReply(c, r) ==
    /\ cpc[c] = "hs2"
    /\ InboxTaken(r)
    /\ IF isOkReply(rdpkt[r])
       THEN \E w \in WriteOutcomes(conn) :
               /\ AfterHandshake(c, w, "hs3")
               /\ HandshakeTook(c, rdpkt[r], w)
               /\ batch' = [batch EXCEPT ![c] =
                               IF w = NoErr THEN HandledKeys(handlers) ELSE {}]
       ELSE /\ AfterHandshake(c, "EAuthenticationFailed", "hs3")
            /\ HandshakeTook(c, rdpkt[r], "EAuthenticationFailed")
            /\ UNCHANGED batch
    /\ UNCHANGED <<running, control, Hostname, conn, sock, pktCount, cres,
                   cmdFiFo, calls, sdpc, execVars, histVars>>
    /\ UNCHANGED <<cevt, jobVars, hdlVars, xVars, libVars>>

\* Lines 197-215: the reply to the subscription; on success the FIFO is
\* created and the mutex released for the main loop.
HsSubscribed(c, r) ==
    /\ cpc[c] = "hs3"
    /\ InboxTaken(r)
    /\ IF isOkReply(rdpkt[r])
       THEN /\ AfterHandshake(c, NoErr, "loop")
            /\ HandshakeTook(c, rdpkt[r], NoErr)
            /\ control' = "free"
            /\ UNCHANGED batch
       ELSE /\ AfterHandshake(c, "ECommandFailed", "loop")
            /\ HandshakeTook(c, rdpkt[r], "ECommandFailed")
            /\ batch' = [batch EXCEPT ![c] = {}]
            /\ UNCHANGED control
    /\ UNCHANGED <<running, Hostname, conn, sock, pktCount, cres, cmdFiFo,
                   calls, sdpc, execVars, histVars>>
    /\ UNCHANGED <<cevt, jobVars, hdlVars, xVars, libVars>>

\* ------------------------------------------------------------- main loop
\* Lines 222-223: `case err = <-c.errors`, the sender a Shutdown caller.
LoopErrShutdown(c, s) ==
    /\ cpc[c] = "loop"
    /\ TakeShutdownErr(s)
    /\ cerr' = [cerr EXCEPT ![c] = "EShutdown"]
    /\ cpc' = [cpc EXCEPT ![c] = "relock"]
    /\ UNCHANGED <<running, control, Hostname, conn, sock, pktCount, cres,
                   cmdFiFo, calls, readVars, execVars, histVars>>
    /\ UNCHANGED apiVars

\* Lines 222-223, the sender a reader.
LoopErrReader(c, r) ==
    /\ cpc[c] = "loop"
    /\ TakeReaderErr(r)
    /\ cerr' = [cerr EXCEPT ![c] = rderr[r]]
    /\ cpc' = [cpc EXCEPT ![c] = "relock"]
    /\ UNCHANGED <<running, control, Hostname, conn, sock, pktCount, cres,
                   cmdFiFo, calls, rdconn, rdpkt, sdpc, execVars,
                   histVars>>
    /\ UNCHANGED apiVars

\* Lines 226-245: `case inbound := <-c.inbox` and the type switch.  An event
\* goes on to take the mutex (line 230); a disconnect notice sets err; any
\* other packet answers the head of the FIFO or is discarded.
LoopInbox(c, r) ==
    /\ cpc[c] = "loop"
    /\ InboxTaken(r)
    /\ LET p == rdpkt[r]
           q == cmdFiFo[c]
       IN IF cast(p) = "inboundEvent"
          THEN /\ cpc' = [cpc EXCEPT ![c] = "handlers"]
               /\ cevt' = [cevt EXCEPT ![c] = [name |-> p.name, job |-> p.job]]
               /\ UNCHANGED <<cerr, cmdFiFo, exresp, respCount, deliv,
                              dropped>>
          ELSE IF cast(p) = "disconnectNotice"
          THEN /\ cpc' = [cpc EXCEPT ![c] = "relock"]
               /\ cerr' = [cerr EXCEPT ![c] = "EDisconnected"]
               /\ UNCHANGED <<cmdFiFo, exresp, respCount, deliv, dropped,
                              cevt>>
          ELSE /\ IF Len(q) > 0
                  THEN /\ cmdFiFo' = [cmdFiFo EXCEPT ![c] = Dequeue(q).rest]
                       /\ exresp' = [exresp EXCEPT ![Dequeue(q).cmd] = p]
                       /\ respCount' =
                              [respCount EXCEPT ![Dequeue(q).cmd] = @ + 1]
                       /\ deliv' = [deliv EXCEPT ![c] =
                              Append(@, <<Dequeue(q).cmd, p>>)]
                       /\ UNCHANGED dropped
                  ELSE /\ dropped' = [dropped EXCEPT ![c] =
                              IF observing THEN @ \cup {p.id} ELSE @]
                       /\ UNCHANGED <<cmdFiFo, exresp, respCount, deliv>>
               /\ UNCHANGED <<cpc, cerr, cevt>>
    /\ UNCHANGED <<running, control, Hostname, conn, sock, pktCount, cres,
                   calls, sdpc, expc, exres, sdWon, pushes,
                   accepted, misframed, outlived, jobVars, hdlVars, hsHist,
                   xVars, libVars>>

\* How often handler h occurs in the list hs.
Occurrences(h, hs) == Cardinality({i \in 1..Len(hs) : hs[i] = h})

\* A dispatch that starts only the handler registered first for the key.
HandlersOfFirstOnly(hs, k) == IF Len(hs[k]) > 0 THEN <<hs[k][1]>> ELSE <<>>

\* Line 231: handlers = c.handlers[*p.Name()][:]
HandlersOf(hs, k) == hs[k]

\* A loop that calls the handlers itself and goes on when they have returned.
AwaitedAll(n) == n

\* Line 234, `go handler(p)`: of the n handler goroutines that are running,
\* the number the loop waits for.
Awaited(n) == 0

\* Lines 229-235: the handler list is copied under the mutex and each handler
\* started in its own goroutine.  The list of BACKGROUND_JOB holds bgJobDone
\* (line 133), which starts with the event's Job-UUID.
LoopHandlers(c) ==
    /\ cpc[c] = "handlers"
    /\ control = "free"
    /\ \A h \in HandlerFns : Awaited(hrun[h]) = 0
    /\ cpc' = [cpc EXCEPT ![c] = "loop"]
    /\ cevt' = [cevt EXCEPT ![c] = NoEvt]
    /\ LET started == HandlersOf(handlers, cevt[c].name)
       IN /\ bgLookup' = [bgLookup EXCEPT ![cevt[c].job] =
                              @ + Occurrences(bgJobDone, started)]
          /\ hrun' = [h \in HandlerFns |-> hrun[h] + Occurrences(h, started)]
    /\ UNCHANGED <<running, control, Hostname, conn, sock, pktCount, cerr,
                   cres, cmdFiFo, calls, readVars, sdpc, execVars,
                   histVars, qpc, jobs, jchan, bgSend, onVars, hsHist,
                   xVars, libVars>>

\* Lines 249-253 with execute() lines 392 and 404: the caller takes cmdChan
\* from c.outbox and sends its command on it; the loop appends it to the FIFO
\* and writes it.
LoopAccept(c, e) ==
    /\ cpc[c] = "loop"
    /\ expc[e] = "select"
    /\ expc' = [expc EXCEPT ![e] = "wait"]
    /\ cmdFiFo' = [cmdFiFo EXCEPT ![c] = Append(@, e)]
    /\ accepted' = [accepted EXCEPT ![c] = Append(@, e)]
    /\ \E w \in WriteOutcomes(conn) :
        /\ cerr' = [cerr EXCEPT ![c] = w]
        /\ cpc' = [cpc EXCEPT ![c] = IF w = NoErr THEN "loop" ELSE "relock"]
    /\ UNCHANGED <<running, control, Hostname, conn, sock, pktCount, cres,
                   calls, readVars, sdpc, exresp, exres, respCount,
                   sdWon, pushes, deliv, dropped, misframed, outlived>>
    /\ UNCHANGED apiVars

\* ---------------------------------------------------------------- exit path
\* Line 257: c.control.Lock()
Relock(c) ==
    /\ cpc[c] = "relock"
    /\ control = "free"
    /\ control' = c
    /\ cpc' = [cpc EXCEPT ![c] = "cancel"]
    /\ batch' = [batch EXCEPT ![c] = {}]
    /\ hsTaken' = [hsTaken EXCEPT ![c] = <<>>]
    /\ UNCHANGED <<running, Hostname, conn, sock, pktCount, cerr, cres,
                   cmdFiFo, calls, readVars, sdpc, execVars,
                   histVars>>
    /\ UNCHANGED <<cevt, jobVars, hdlVars, xVars, libVars>>

\* Lines 260-262: every command left in the FIFO gets nil.
Cancel(c) ==
    /\ cpc[c] = "cancel"
    /\ exresp' = [e \in ExProcs |->
                    IF e \in CancelSet(cmdFiFo[c]) THEN NilPkt ELSE exresp[e]]
    /\ respCount' = [e \in ExProcs |->
                    IF e \in CancelSet(cmdFiFo[c])
                    THEN respCount[e] + 1 ELSE respCount[e]]
    /\ cpc' = [cpc EXCEPT ![c] = "drain"]
    /\ UNCHANGED <<running, control, Hostname, conn, sock, pktCount, cerr,
                   cres, cmdFiFo, calls, readVars, sdpc, expc, exres,
                   histVars>>
    /\ UNCHANGED apiVars

\* A job drain that sends to no job and only replaces the table.
DrainedJobsNone(t) == {}

\* The jobs the job drain sends "" to: for _, job := range c.jobs
DrainedJobs(t) == t

\* The "" of line 268, as a value on a job's result channel.
EmptyString == <<"empty", "">>

\* The body of the BACKGROUND_JOB event of job j, as such a value.
BodyOf(j) == <<"body", j>>

\* A send on a job's result channel.  The channel has capacity 1 (line 370)
\* and its receiver is the caller of Query, so a send is recorded and never
\* held back.
JobSend(ch, js, v) ==
    [e \in ExProcs |-> IF e \in js THEN Append(ch[e], v) ELSE ch[e]]

\* A job drain that sends and leaves the table as it is.
TableAfterDrainKept(t) == t

\* Line 270: c.jobs = map[string]chan string{}
TableAfterDrain(t) == {}

\* A drain that receives the submissions of the waiting callers and fails
\* them: every caller in execute()'s select returns ENotConnected.
DrainFailsWaiting(c) ==
    /\ cpc[c] = "drain"
    /\ cpc' = [cpc EXCEPT ![c] = "unrun"]
    /\ jchan' = JobSend(jchan, DrainedJobs(jobs), EmptyString)
    /\ jobs' = TableAfterDrain(jobs)
    /\ expc' = [e \in ExProcs |->
                  IF expc[e] = "select" THEN "done" ELSE expc[e]]
    /\ exres' = [e \in ExProcs |->
                   IF expc[e] = "select"
                   THEN Result("nil", FALSE, "ENotConnected") ELSE exres[e]]
    /\ UNCHANGED <<running, control, Hostname, conn, sock, pktCount, cerr,
                   cres, cmdFiFo, calls, readVars, sdpc, exresp, respCount,
                   histVars, cevt, qpc, bgLookup, bgSend, hdlVars, hsHist,
                   xVars, libVars>>

\* Lines 265-272: under jobsLock every job of the table is sent "" and the
\* table is replaced by an empty one.  Lines 275-282: the drain receives from
\* c.outbox, on which only a main loop sends (line 249; execute() receives
\* from it, line 392).  This Connect has left its loop, and another one can be
\* in its loop only after a further successful dial made while this call is
\* still running, so the receive is not ready and the select takes `default`.
DrainDefault(c) ==
    /\ cpc[c] = "drain"
    /\ cpc' = [cpc EXCEPT ![c] = "unrun"]
    /\ jchan' = JobSend(jchan, DrainedJobs(jobs), EmptyString)
    /\ jobs' = TableAfterDrain(jobs)
    /\ outlived' = IF observing
                   THEN outlived \cup {e \in ExProcs : expc[e] = "select"}
                   ELSE outlived
    /\ UNCHANGED <<running, control, Hostname, conn, sock, pktCount, cerr,
                   cres, cmdFiFo, calls, readVars, sdpc, execVars,
                   sdWon, pushes, accepted, deliv, dropped, misframed,
                   cevt, qpc, bgLookup, bgSend, hdlVars, hsHist,
                   xVars, libVars>>

\* Line 295: c.conn.Close()
CloseConn == sock' = [sock EXCEPT ![conn] = "closed"]

\* Lines 286 and 295: the CAS changes the flag, the connection is closed ...
\* ... or it does not, and Connect goes to receive from c.errors (line 289).
Unrun(c) ==
    /\ cpc[c] = "unrun"
    /\ running' = setRunningValue(FALSE)
    /\ IF setRunningChanged(FALSE)
       THEN /\ CloseConn
            /\ cpc' = [cpc EXCEPT ![c] = "reading"]
       ELSE /\ cpc' = [cpc EXCEPT ![c] = "errwait"]
            /\ UNCHANGED sock
    /\ UNCHANGED <<control, Hostname, conn, pktCount, cerr, cres, cmdFiFo,
                   calls, readVars, sdpc, execVars, histVars>>
    /\ UNCHANGED apiVars

\* Lines 289-295: the error received is EShutdown, which replaces err.
ErrWaitShutdown(c, s) ==
    /\ cpc[c] = "errwait"
    /\ TakeShutdownErr(s)
    /\ cerr' = [cerr EXCEPT ![c] = "EShutdown"]
    /\ CloseConn
    /\ cpc' = [cpc EXCEPT ![c] = "reading"]
    /\ UNCHANGED <<running, control, Hostname, conn, pktCount, cres, cmdFiFo,
                   calls, readVars, execVars, histVars>>
    /\ UNCHANGED apiVars

\* Lines 289-295: the error received is a reader's, which is dropped.
ErrWaitReader(c, r) ==
    /\ cpc[c] = "errwait"
    /\ TakeReaderErr(r)
    /\ CloseConn
    /\ cpc' = [cpc EXCEPT ![c] = "reading"]
    /\ UNCHANGED <<running, control, Hostname, conn, pktCount, cerr, cres,
                   cmdFiFo, calls, rdconn, rdpkt, sdpc, execVars,
                   histVars>>
    /\ UNCHANGED apiVars

\* Lines 303-306: EShutdown becomes nil.
Normalise(err) == IF err = "EShutdown" THEN NoErr ELSE err

\* Lines 298-307: `<-c.reading`, then return (and the deferred Unlock).
Reading(c, r) ==
    /\ cpc[c] = "reading"
    /\ rdpc[r] = "signal"
    /\ rdpc' = [rdpc EXCEPT ![r] = "done"]
    /\ cres' = [cres EXCEPT ![c] = Normalise(cerr[c])]
    /\ cpc' = [cpc EXCEPT ![c] = "done"]
    /\ control' = "free"
    /\ cerr' = [cerr EXCEPT ![c] = NoErr]
    /\ cmdFiFo' = [cmdFiFo EXCEPT ![c] = <<>>]
    /\ accepted' = [accepted EXCEPT ![c] = <<>>]
    /\ deliv' = [deliv EXCEPT ![c] = <<>>]
    /\ dropped' = [dropped EXCEPT ![c] = {}]
    /\ UNCHANGED <<running, Hostname, conn, sock, pktCount, calls, rdconn,
                   rdpkt, rderr, sdpc, execVars, sdWon, pushes, misframed,
                   outlived>>
    /\ UNCHANGED apiVars

\* --------------------------------------------------------------- Shutdown
\* Lines 311-314 and 447-451: close(EShutdown); the caller that changes the
\* flag goes on to send on c.errors.
Shutdown(s) ==
    /\ sdpc[s] = "idle"
    /\ \A x \in SdBefore(s) : sdpc[x] # "idle"
    /\ running' = setRunningValue(FALSE)
    /\ IF setRunningChanged(FALSE)
       THEN /\ sdpc' = [sdpc EXCEPT ![s] = "push"]
            /\ pushes' = pushes + 1
            /\ sdWon' = [c \in ConnProcs |-> sdWon[c] \/ Executing(c)]
       ELSE /\ sdpc' = [sdpc EXCEPT ![s] = "done"]
            /\ UNCHANGED <<pushes, sdWon>>
    /\ UNCHANGED <<control, Hostname, conn, sock, pktCount, connVars,
                   readVars, execVars, loopHist>>
    /\ UNCHANGED apiVars

\* ---------------------------------------------------------------- execute
\* Lines 389-392: the caller enters the select on c.outbox.
ExecCall(e) ==
    /\ expc[e] = "idle"
    /\ \A x \in ExBefore(e) : expc[x] # "idle"
    /\ expc' = [expc EXCEPT ![e] = "select"]
    /\ UNCHANGED <<running, control, Hostname, conn, sock, pktCount, connVars,
                   readVars, sdpc, exresp, exres, respCount,
                   histVars>>
    /\ UNCHANGED apiVars

\* Lines 396-397: the timer fires before a loop offers its cmdChan.
ExecTimeout(e) ==
    /\ expc[e] = "select"
    /\ expc' = [expc EXCEPT ![e] = "done"]
    /\ exres' = [exres EXCEPT ![e] = Result("nil", FALSE, "ETimeout")]
    /\ UNCHANGED <<running, control, Hostname, conn, sock, pktCount, connVars,
                   readVars, sdpc, exresp, respCount, histVars>>
    /\ UNCHANGED apiVars

\* Lines 405-410: the response arrives; nil becomes ENotConnected.
ExecReturn(e) ==
    /\ expc[e] = "wait"
    /\ exresp[e] # NoPkt
    /\ expc' = [expc EXCEPT ![e] = "done"]
    /\ exres' = [exres EXCEPT ![e] =
                   IF exresp[e] = NilPkt
                   THEN Result("nil", FALSE, "ENotConnected")
                   ELSE Result(exresp[e].ct, exresp[e].ok, NoErr)]
    /\ exresp' = [exresp EXCEPT ![e] = NoPkt]
    /\ UNCHANGED <<running, control, Hostname, conn, sock, pktCount, connVars,
                   readVars, sdpc, respCount, histVars>>
    /\ UNCHANGED apiVars

\* ------------------------------------------------------------------ Query
\* Lines 366-372 and 389-392: the job id is new (the caller's name stands for
\* it), its channel is put in the table under jobsLock, and the bgapi command
\* is handed to execute(), which enters its select.
QueryCall(e) ==
    /\ expc[e] = "idle"
    /\ \A x \in ExBefore(e) : expc[x] # "idle"
    /\ qpc' = [qpc EXCEPT ![e] = "exec"]
    /\ jobs' = jobs \cup {e}
    /\ expc' = [expc EXCEPT ![e] = "select"]
    /\ UNCHANGED <<running, control, Hostname, conn, sock, pktCount, connVars,
                   readVars, sdpc, exresp, exres, respCount, histVars, cevt,
                   jchan, bgLookup, bgSend, hdlVars, hsHist,
                   xVars, libVars>>

\* Line 373: `if p == nil`, the only outcome of execute() Query treats as a
\* failure.
QueryFailed(res) == res.ct = "nil"

\* Lines 373-377: execute() has returned.  With a nil packet the entry is
\* deleted under jobsLock and Query returns a nil channel; with any packet it
\* returns the channel and leaves the entry in the table.
QueryReturn(e) ==
    /\ qpc[e] = "exec"
    /\ expc[e] = "done"
    /\ IF QueryFailed(exres[e])
       THEN /\ qpc' = [qpc EXCEPT ![e] = "nil"]
            /\ jobs' = jobs \ {e}
       ELSE /\ qpc' = [qpc EXCEPT ![e] = "chan"]
            /\ UNCHANGED jobs
    /\ UNCHANGED <<running, control, Hostname, conn, sock, pktCount, connVars,
                   readVars, sdpc, execVars, histVars, cevt, jchan, bgLookup,
                   bgSend, hdlVars, hsHist,
                   xVars, libVars>>

\* A bgJobDone that leaves the entry in the table.
JobsAfterLookupKept(t, j) == t

\* Line 421: delete(c.jobs, jobID)
JobsAfterLookup(t, j) == t \ {j}

\* Lines 416-422: bgJobDone reads the Job-UUID; if there is one, it takes the
\* channel of that job from the table and deletes the entry, under jobsLock.
\* Without a Job-UUID, or without an entry, it is finished.
BgJobLookup(j) ==
    /\ bgLookup[j] > 0
    /\ bgLookup' = [bgLookup EXCEPT ![j] = @ - 1]
    /\ IF j # "" /\ j \in jobs
       THEN /\ jobs' = JobsAfterLookup(jobs, j)
            /\ bgSend' = [bgSend EXCEPT ![j] = @ + 1]
       ELSE UNCHANGED <<jobs, bgSend>>
    /\ UNCHANGED <<running, control, Hostname, conn, sock, pktCount, connVars,
                   readVars, sdpc, execVars, histVars, cevt, qpc, jchan,
                   hdlVars, hsHist,
                   xVars, libVars>>

\* Lines 423-425: resultChan <- e.Body()
BgJobSend(j) ==
    /\ bgSend[j] > 0
    /\ bgSend' = [bgSend EXCEPT ![j] = @ - 1]
    /\ jchan' = JobSend(jchan, {j}, BodyOf(j))
    /\ UNCHANGED <<running, control, Hostname, conn, sock, pktCount, connVars,
                   readVars, sdpc, execVars, histVars, cevt, qpc, jobs,
                   bgLookup, hdlVars, hsHist,
                   xVars, libVars>>

\* ---------------------------------------------------------------- Execute
\* Lines 334-342: Execute() calls Query() if PreventSocketBlocking is set
\* (lines 366-372: the job is put in the table and execute() entered), and
\* execute() with the api command otherwise.
ExecuteCall(e) ==
    /\ expc[e] = "idle"
    /\ xpc[e] = "none"
    /\ \A x \in ExBefore(e) : expc[x] # "idle"
    /\ xpc' = [xpc EXCEPT ![e] = "call"]
    /\ expc' = [expc EXCEPT ![e] = "select"]
    /\ IF PreventSocketBlocking
       THEN /\ qpc' = [qpc EXCEPT ![e] = "exec"]
            /\ jobs' = jobs \cup {e}
       ELSE UNCHANGED <<qpc, jobs>>
    /\ UNCHANGED <<running, control, Hostname, conn, sock, pktCount, connVars,
                   readVars, sdpc, exresp, exres, respCount, histVars, cevt,
                   jchan, bgLookup, bgSend, hdlVars, hsHist,
                   PreventSocketBlocking, xres, libVars>>

\* p.String() of the packet execute() returned, as a value Execute returns.
TextOf(res) == <<"text", res.ct>>

\* What Execute() returns without PreventSocketBlocking (lines 341-347): the
\* text of the packet, "" without one, and the err of execute().
ExecutePlain(res) ==
    [result |-> IF res.ct = "nil" THEN EmptyString ELSE TextOf(res),
     err |-> res.err]

\* What Execute() returns with PreventSocketBlocking when Query() returned
\* an error (lines 336-339 and 347): `ch, err := c.Query(...)` declares a new
\* err inside the if block, so the result err of Execute() is left nil.
ExecuteQueryFailed(res) == [result |-> EmptyString, err |-> NoErr]

\* Lines 343-347, or 337 and 347: execute() has returned to Execute(), or
\* Query() has returned an error to it.
ExecuteReturn(e) ==
    /\ xpc[e] = "call"
    /\ IF PreventSocketBlocking
       THEN /\ qpc[e] = "nil"
            /\ xres' = [xres EXCEPT ![e] = ExecuteQueryFailed(exres[e])]
       ELSE /\ expc[e] = "done"
            /\ xres' = [xres EXCEPT ![e] = ExecutePlain(exres[e])]
    /\ xpc' = [xpc EXCEPT ![e] = "done"]
    /\ UNCHANGED <<running, control, Hostname, conn, sock, pktCount, connVars,
                   readVars, sdpc, execVars, histVars, cevt, jobVars, hdlVars,
                   hsHist, PreventSocketBlocking, libVars>>

\* Lines 337-339 and 347: Query() returned the channel, and `result = <-ch`
\* takes the value sent on it.
ExecuteReceive(e) ==
    /\ xpc[e] = "call"
    /\ PreventSocketBlocking
    /\ qpc[e] = "chan"
    /\ Len(jchan[e]) > 0
    /\ xres' = [xres EXCEPT ![e] = [result |-> jchan[e][1], err |-> NoErr]]
    /\ xpc' = [xpc EXCEPT ![e] = "done"]
    /\ UNCHANGED <<running, control, Hostname, conn, sock, pktCount, connVars,
                   readVars, sdpc, execVars, histVars, cevt, jobVars, hdlVars,
                   hsHist, PreventSocketBlocking, libVars>>

\* ------------------------------------------------------------- On, OnCustom
\* The caller that calls first registers the handler h1 for CHANNEL_CREATE;
\* the next one registers the same handler for the same key once more, or
\* another handler for the other key.
OnChoices(e) ==
    IF ExBefore(e) = {}
    THEN {<<"CHANNEL_CREATE", "h1">>}
    ELSE {<<"CHANNEL_CREATE", "h1">>, <<"CHANNEL_ANSWER", "h2">>}

\* Lines 318-325 and 436-437: On() or OnCustom() is called and on() goes to
\* lock c.control.
OnCall(e, k, h) ==
    /\ opc[e] = "none"
    /\ expc[e] = "idle"
    /\ \A x \in ExBefore(e) : opc[x] # "none"
    /\ <<k, h>> \in OnChoices(e)
    /\ opc' = [opc EXCEPT ![e] = "lock"]
    /\ okey' = [okey EXCEPT ![e] = k]
    /\ ofn' = [ofn EXCEPT ![e] = h]
    /\ UNCHANGED <<running, control, Hostname, conn, sock, pktCount, connVars,
                   readVars, sdpc, execVars, histVars, cevt, jobVars,
                   handlers, ofirst, hrun, hsHist,
                   xVars, libVars>>

\* An on() that takes every handler for the first of its key.
AlreadyHandledNever(hs, k) == FALSE

\* Line 438: alreadyHandled := len(c.handlers[name]) > 0
AlreadyHandled(hs, k) == Len(hs[k]) > 0

\* Lines 437-440: with c.control held, alreadyHandled is computed and the
\* handler appended to the list of its key.
OnRegister(e) ==
    /\ opc[e] = "lock"
    /\ control = "free"
    /\ ofirst' = [ofirst EXCEPT ![e] = ~AlreadyHandled(handlers, okey[e])]
    /\ handlers' = [handlers EXCEPT ![okey[e]] = Append(@, ofn[e])]
    /\ opc' = [opc EXCEPT ![e] = "check"]
    /\ UNCHANGED <<running, control, Hostname, conn, sock, pktCount, connVars,
                   readVars, sdpc, execVars, histVars, cevt, jobVars, okey,
                   ofn, hrun, hsHist,
                   xVars, libVars>>

\* Lines 461-463: isRunning()
isRunning == running = 1

\* Lines 441-444 and 389-392: if the flag is set and the handler is the first
\* of its key, the subscription command of the key is handed to execute(),
\* which enters its select; otherwise on() returns nil.
OnCheck(e) ==
    /\ opc[e] = "check"
    /\ IF isRunning /\ ofirst[e]
       THEN /\ opc' = [opc EXCEPT ![e] = "exec"]
            /\ expc' = [expc EXCEPT ![e] = "select"]
       ELSE /\ opc' = [opc EXCEPT ![e] = "done"]
            /\ UNCHANGED expc
    /\ UNCHANGED <<running, control, Hostname, conn, sock, pktCount, connVars,
                   readVars, sdpc, exresp, exres, respCount, histVars, cevt,
                   jobVars, handlers, okey, ofn, ofirst, hrun, hsHist,
                   xVars, libVars>>

\* A handler returns, and its goroutine ends.
HandlerReturn(h) ==
    /\ hrun[h] > 0
    /\ hrun' = [hrun EXCEPT ![h] = @ - 1]
    /\ UNCHANGED <<running, control, Hostname, conn, sock, pktCount, connVars,
                   readVars, sdpc, execVars, histVars, cevt, jobVars, onVars,
                   hsHist,
                   xVars, libVars>>

\* ------------------------------------------------------------------ read()
\* The Query calls whose bgapi command, and so whose Job-UUID, the main loop
\* has accepted for writing.
JobsWritten ==
    {e \in ExProcs : /\ qpc[e] # "none"
                     /\ \/ expc[e] = "wait"
                        \/ expc[e] = "done" /\ exres[e].err # "ETimeout"}

\* What the server may send next: any packet of WireKinds; once it has been
\* sent a job (the ids are random, line 366), a BACKGROUND_JOB event for it or
\* for none; and an event of any key On() has been called for.
ServerSends ==
    WireKinds
    \cup { Wire(ptEventPlain, FALSE, evBackgroundJob, j) :
             j \in JobsWritten \cup (IF JobsWritten # {} THEN {""} ELSE {}) }
    \cup { Wire(ptEventPlain, FALSE, okey[e], "") :
             e \in {x \in ExProcs : opc[x] # "none"} }

\* Lines 467-468: the reader wraps c.conn as it finds it when it starts.
ReadStart(r) ==
    /\ rdpc[r] = "start"
    /\ rdconn' = [rdconn EXCEPT ![r] = conn]
    /\ rdpc' = [rdpc EXCEPT ![r] = "read"]
    /\ UNCHANGED <<running, control, Hostname, conn, sock, pktCount, connVars,
                   rdpkt, rderr, sdpc, execVars, histVars>>
    /\ UNCHANGED apiVars

\* Lines 474-484: the server sends a packet and the reader frames it.
ReadPacket(r) ==
    /\ rdpc[r] = "read"
    /\ sock[rdconn[r]] = "open"
    /\ pktCount < MaxPackets
    /\ pktCount' = pktCount + 1
    /\ \E w \in ServerSends :
        rdpkt' = [rdpkt EXCEPT ![r] =
                    [ct |-> w.ct, ok |-> w.ok, id |-> pktCount + 1,
                     name |-> w.name, job |-> w.job]]
    /\ rdpc' = [rdpc EXCEPT ![r] = "send"]
    /\ UNCHANGED <<running, control, Hostname, conn, sock, connVars, rdconn,
                   rderr, sdpc, execVars, histVars>>
    /\ UNCHANGED apiVars

\* Line 488: c.close(err) after the read loop ended with err.
ReadFail(r, err) ==
    /\ rdpc[r] = "read"
    /\ running' = setRunningValue(FALSE)
    /\ IF setRunningChanged(FALSE)
       THEN /\ rdpc' = [rdpc EXCEPT ![r] = "push"]
            /\ rderr' = [rderr EXCEPT ![r] = err]
       ELSE /\ rdpc' = [rdpc EXCEPT ![r] = "signal"]
            /\ UNCHANGED rderr
    /\ UNCHANGED <<control, Hostname, conn, sock, pktCount, connVars, rdconn,
                   rdpkt, sdpc, execVars, histVars>>
    /\ UNCHANGED apiVars

\* What a server that answers as expected sends: auth/request to a new
\* connection, an OK reply to the password and to the subscription, then an
\* OK reply to a command not answered yet, an event, or the notice that it
\* disconnects.
ExpectedSends ==
    IF \E c \in ConnProcs : cpc[c] = "hs1"
    THEN {Wire(ptAuthRequest, FALSE, "", "")}
    ELSE IF \E c \in ConnProcs : cpc[c] \in {"hs2", "hs3"}
    THEN {Wire(ptCommandReply, TRUE, "", "")}
    ELSE {Wire(ptCommandReply, TRUE, "", "") :
              c \in {x \in ConnProcs : cmdFiFo[x] # <<>>}}
         \cup {Wire(ptEventPlain, FALSE, evHeartbeat, ""),
               Wire(ptDisconnectNotice, FALSE, "", "")}

\* Lines 474-485 with such a server.
ReadExpected(r) ==
    /\ rdpc[r] = "read"
    /\ sock[rdconn[r]] = "open"
    /\ pktCount < MaxRedialPackets
    /\ pktCount' = pktCount + 1
    /\ \E w \in ExpectedSends :
        rdpkt' = [rdpkt EXCEPT ![r] =
                    [ct |-> w.ct, ok |-> w.ok, id |-> pktCount + 1,
                     name |-> w.name, job |-> w.job]]
    /\ rdpc' = [rdpc EXCEPT ![r] = "send"]
    /\ UNCHANGED <<running, control, Hostname, conn, sock, connVars, rdconn,
                   rderr, sdpc, execVars, histVars>>
    /\ UNCHANGED apiVars

\* The errors of lines 477 and 479: strconv.Atoi of a Content-Length that is
\* not a number, and io.ReadFull of a body that ends before Content-Length
\* bytes.
FramingErrors == {"ENumError", "EUnexpectedEOF"}

\* The packets the server sends misframed in this model: a result, whose
\* body is the output of a command, and an event.
MisframedSends ==
    { Wire(ptResult, FALSE, "", ""),
      Wire(ptEventPlain, FALSE, evHeartbeat, "") }

\* Lines 474-485 for a packet with a framing anomaly: the headers are read,
\* Atoi or ReadFull sets err and the body stays empty, and the packet goes
\* on to `c.inbox <- p` like any other.
ReadMisframed(r) ==
    /\ rdpc[r] = "read"
    /\ sock[rdconn[r]] = "open"
    /\ pktCount < MaxPackets
    /\ pktCount' = pktCount + 1
    /\ \E w \in MisframedSends :
        rdpkt' = [rdpkt EXCEPT ![r] =
                    [ct |-> w.ct, ok |-> w.ok, id |-> pktCount + 1,
                     name |-> w.name, job |-> w.job]]
    /\ \E err \in FramingErrors : rderr' = [rderr EXCEPT ![r] = err]
    /\ misframed' = misframed \cup {pktCount + 1}
    /\ rdpc' = [rdpc EXCEPT ![r] = "send"]
    /\ UNCHANGED <<running, control, Hostname, conn, sock, connVars, rdconn,
                   sdpc, execVars, sdWon, pushes, accepted, deliv,
                   dropped, outlived>>
    /\ UNCHANGED apiVars

\* Line 488 after the loop ended on its condition: c.close(err) with the
\* error of the anomaly.
ReadClose(r) ==
    /\ rdpc[r] = "close"
    /\ running' = setRunningValue(FALSE)
    /\ IF setRunningChanged(FALSE)
       THEN /\ rdpc' = [rdpc EXCEPT ![r] = "push"]
            /\ UNCHANGED rderr
       ELSE /\ rdpc' = [rdpc EXCEPT ![r] = "signal"]
            /\ rderr' = [rderr EXCEPT ![r] = NoErr]
    /\ UNCHANGED <<control, Hostname, conn, sock, pktCount, connVars, rdconn,
                   rdpkt, sdpc, execVars, histVars>>
    /\ UNCHANGED apiVars

\* Line 474 fails: the server closed the connection.
ReadServerClose(r) ==
    /\ rdpc[r] = "read"
    /\ sock[rdconn[r]] = "open"
    /\ ReadFail(r, "EOF")

\* Line 474 fails: the connection was closed by line 295.
ReadLocalClose(r) ==
    /\ rdpc[r] = "read"
    /\ sock[rdconn[r]] = "closed"
    /\ ReadFail(r, "EClosed")

\* ------------------------------------------------------------------- specs
\* What the callers and the server decide: to call Connect, Shutdown or a
\* command, to send a packet, to close the connection.
Environment(CP) ==
    \/ \E c \in CP : ConnectEnter(c)
    \/ \E s \in SdProcs : Shutdown(s)
    \/ \E e \in ExProcs : ExecCall(e)
    \/ \E r \in Conns : ReadPacket(r)
    \/ \E r \in Conns : ReadServerClose(r)

\* The steps the goroutines of the client take by themselves, with Connect
\* called by the goroutines CP.  The dial and every timer end by themselves
\* (net.DialTimeout, time.After).
Program(CP) ==
    \/ \E c \in CP : DialOk(c)
    \/ \E c \in CP : DialFail(c)
    \/ \E c \in CP, r \in Conns : HsAuthRequest(c, r)
    \/ \E c \in CP : HsTimeout(c)
    \/ \E c \in CP, r \in Conns : HsAuthReply(c, r)
    \/ \E c \in CP, r \in Conns : HsSubscribed(c, r)
    \/ \E c \in CP, s \in SdProcs : LoopErrShutdown(c, s)
    \/ \E c \in CP, r \in Conns : LoopErrReader(c, r)
    \/ \E c \in CP, r \in Conns : LoopInbox(c, r)
    \/ \E c \in CP : LoopHandlers(c)
    \/ \E c \in CP, e \in ExProcs : LoopAccept(c, e)
    \/ \E c \in CP : Relock(c)
    \/ \E c \in CP : Cancel(c)
    \/ \E c \in CP : DrainDefault(c)
    \/ \E c \in CP : Unrun(c)
    \/ \E c \in CP, s \in SdProcs : ErrWaitShutdown(c, s)
    \/ \E c \in CP, r \in Conns : ErrWaitReader(c, r)
    \/ \E c \in CP, r \in Conns : Reading(c, r)
    \/ \E e \in ExProcs : ExecTimeout(e)
    \/ \E e \in ExProcs : ExecReturn(e)
    \/ \E r \in Conns : ReadStart(r)
    \/ \E r \in Conns : ReadLocalClose(r)

\* One goroutine calls Connect, again and again (lines 138-139: "Call this
\* method in its own goroutine").
Next == Environment(OneConn) \/ Program(OneConn)

Spec == Init /\ [][Next]_vars

\* The same with a server that also sends packets with a framing anomaly.
NextFraming ==
    \/ Next
    \/ \E r \in Conns : ReadMisframed(r)
    \/ \E r \in Conns : ReadClose(r)

FramingSpec == Init /\ [][NextFraming]_vars

\* Spec with the record of the discarded packets kept.
ObservedSpec == InitObserving /\ [][Next]_vars

\* A client whose Connect is called again after it returned and dials with
\* success again, with a server that answers as expected and callers of
\* Shutdown and of plain commands.
RedialEnvironment ==
    \/ \E c \in OneConn : ConnectEnter(c)
    \/ \E c \in OneConn : DialOkAgain(c)
    \/ \E s \in OneSd : Shutdown(s)
    \/ \E e \in ExProcs : ExecCall(e)
    \/ \E r \in Conns : ReadExpected(r)
    \/ \E r \in Conns : ReadServerClose(r)

NextRedial == RedialEnvironment \/ Program(OneConn)

RedialSpec == InitObserving /\ [][NextRedial]_vars

\* The same with a fair scheduler: a goroutine of the client that can take a
\* step takes one.  Nothing is assumed of the callers nor of the server.
FairSpec == Spec /\ WF_vars(Program(OneConn))

\* The callers call Query in place of a plain command, the BACKGROUND_JOB
\* events of their jobs arrive, and one goroutine calls Shutdown.
JobEnvironment ==
    \/ \E c \in OneConn : ConnectEnter(c)
    \/ \E s \in OneSd : Shutdown(s)
    \/ \E e \in ExProcs : QueryCall(e)
    \/ \E r \in Conns : ReadPacket(r)
    \/ \E r \in Conns : ReadServerClose(r)

JobProgram ==
    \/ \E e \in ExProcs : QueryReturn(e)
    \/ \E j \in JobIds : BgJobLookup(j)
    \/ \E e \in ExProcs : BgJobSend(e)

NextJobs == JobEnvironment \/ Program(OneConn) \/ JobProgram

JobSpec == Init /\ [][NextJobs]_vars

FairJobSpec == JobSpec /\ WF_vars(Program(OneConn) \/ JobProgram)

\* The callers call On in place of a plain command, events of the keys they
\* register arrive, a handler returns or never does, and one goroutine calls
\* Shutdown.
HandlerEnvironment ==
    \/ \E c \in OneConn : ConnectEnter(c)
    \/ \E s \in OneSd : Shutdown(s)
    \/ \E e \in ExProcs, k \in OnKeys, h \in HandlerFns : OnCall(e, k, h)
    \/ \E h \in HandlerFns : HandlerReturn(h)
    \/ \E r \in Conns : ReadPacket(r)
    \/ \E r \in Conns : ReadServerClose(r)

HandlerProgram ==
    \/ \E e \in ExProcs : OnRegister(e)
    \/ \E e \in ExProcs : OnCheck(e)

NextHandlers == HandlerEnvironment \/ Program(OneConn) \/ HandlerProgram

HandlerSpec == Init /\ [][NextHandlers]_vars

FairHandlerSpec ==
    HandlerSpec /\ WF_vars(Program(OneConn) \/ HandlerProgram)

\* The callers call Execute, on a client with PreventSocketBlocking set or
\* not, and one goroutine calls Shutdown.
ExecuteEnvironment ==
    \/ \E c \in OneConn : ConnectEnter(c)
    \/ \E s \in OneSd : Shutdown(s)
    \/ \E e \in ExProcs : ExecuteCall(e)
    \/ \E r \in Conns : ReadPacket(r)
    \/ \E r \in Conns : ReadServerClose(r)

ExecuteProgram ==
    \/ \E e \in ExProcs : ExecuteReturn(e)
    \/ \E e \in ExProcs : ExecuteReceive(e)

NextExecute ==
    ExecuteEnvironment \/ Program(OneConn) \/ JobProgram \/ ExecuteProgram

ExecuteSpec == InitAnyFlag /\ [][NextExecute]_vars

\* A program applies add, set and del to a headers value, in any order and
\* with any names and values.
NextHeaders ==
    \/ \E n \in HdrNames, v \in HdrValues : HdrAdd(n, v)
    \/ \E n \in HdrNames, v \in HdrValues : HdrSet(n, v)
    \/ \E n \in HdrNames : HdrDel(n)

HeaderSpec == Init /\ [][NextHeaders]_vars

\* A program builds the subscription command of any list of keys.
NextSubscription == \E k \in SubKeys : SubAppend(k)

SubscriptionSpec == Init /\ [][NextSubscription]_vars

\* A program makes an Event of a raw packet and calls its methods, in any
\* order and any number of times.
NextEvent ==
    \/ \E r \in DOMAIN RawBodies : EvLoad(r)
    \/ \E n \in EvNames : EvGet(n)
    \/ EvName
    \/ \E n \in EvNames, v \in EvValues : EvSet(n, v)
    \/ EvBody
    \/ EvString

EventSpec == Init /\ [][NextEvent]_vars

\* The same, and the program calls SetBody too.
NextEventBody ==
    \/ NextEvent
    \/ \E v \in BodyValues : EvSetBody(v)

EventBodySpec == Init /\ [][NextEventBody]_vars

\* Several goroutines call Connect.
NextConcurrent == Environment(ConnProcs) \/ Program(ConnProcs)

ConcurrentSpec == Init /\ [][NextConcurrent]_vars

\* ------------------------------------------------------------- properties
Members(q) == {q[i] : i \in 1..Len(q)}

IsPacket(p) == p \notin {NoPkt, NilPkt}

\* C1: the i-th packet the main loop matches to a command (a packet that is
\* neither an event nor a disconnect notice, taken while a command is
\* outstanding) goes to the i-th command the loop accepted; the matched
\* packets are in the order they were read, the FIFO is what was accepted
\* and not yet answered, and no packet is held by two callers.
ResponsesInAcceptanceOrder ==
    /\ \A c \in ConnProcs :
        /\ Len(deliv[c]) <= Len(accepted[c])
        /\ cmdFiFo[c] = SubSeq(accepted[c], Len(deliv[c]) + 1, Len(accepted[c]))
        /\ \A i \in 1..Len(deliv[c]) :
            /\ deliv[c][i][1] = accepted[c][i]
            /\ cast(deliv[c][i][2]) \notin {"inboundEvent", "disconnectNotice"}
            /\ exresp[deliv[c][i][1]] \in {deliv[c][i][2], NoPkt}
        /\ \A i, j \in 1..Len(deliv[c]) :
            i < j => deliv[c][i][2].id < deliv[c][j][2].id
    /\ \A e, f \in ExProcs :
        (e # f /\ IsPacket(exresp[e]) /\ IsPacket(exresp[f]))
            => exresp[e].id # exresp[f].id

\* Two commands of two callers were accepted and both were answered.
TwoResponsesDelivered ==
    \E c \in ConnProcs :
        /\ Len(accepted[c]) = 2
        /\ Len(deliv[c]) = 2
        /\ deliv[c][1][1] # deliv[c][2][1]

PastCancel(c) == cpc[c] \in {"drain", "unrun", "errwait", "reading"}

InSession(c) == cpc[c] \in {"loop", "handlers", "relock", "cancel"}

\* C2: no command's response channel is sent on twice; once Connect is past
\* the cancel loop every command it accepted has been completed; a caller
\* still waiting for its response is in the FIFO of a Connect that has not yet
\* cancelled; a completed command's caller holds what was sent until it
\* returns; and execute() returns ENotConnected exactly when it received nil.
CompletedExactlyOnce ==
    /\ [](/\ \A e \in ExProcs : respCount[e] <= 1
          /\ \A c \in ConnProcs : PastCancel(c) =>
                \A e \in Members(accepted[c]) : respCount[e] = 1
          /\ \A e \in ExProcs : (expc[e] = "wait" /\ respCount[e] = 0) =>
                \E c \in ConnProcs : InSession(c) /\ e \in Members(cmdFiFo[c])
          /\ \A e \in ExProcs : (expc[e] = "wait" /\ respCount[e] = 1) =>
                exresp[e] # NoPkt)
    /\ [][\A e \in ExProcs : ExecReturn(e) =>
            /\ (exresp[e] = NilPkt) <=> (exres'[e].err = "ENotConnected")
            /\ IsPacket(exresp[e]) =>
                  exres'[e] = Result(exresp[e].ct, exresp[e].ok, NoErr)]_vars

\* A command was accepted, cancelled with nil at the end of the session, and
\* its caller returned ENotConnected.
CommandCancelledWithNil ==
    \E e \in ExProcs :
        /\ respCount[e] = 1
        /\ expc[e] = "done"
        /\ exres[e].err = "ENotConnected"

\* Connect waits on c.reading for a reader that is itself held in
\* `c.inbox <- p` (line 485) or in `c.errors <- err` (line 449).
ReaderHeld(c) ==
    /\ cpc[c] = "reading"
    /\ \E r \in Conns : rdpc[r] \in {"send", "push"}

\* C3: once a Shutdown has won the flag while Connect is in its main loop,
\* Connect returns, and returns nil (the case of a reader that is held and
\* never signals c.reading set aside).
ShutdownReturnsConnect ==
    \A c \in OneConn, s \in SdProcs :
        (cpc[c] = "loop" /\ sdpc[s] = "push")
            ~> ((cpc[c] = "done" /\ cres[c] = NoErr) \/ ReaderHeld(c))

\* C4: a Connect call that has returned returned nil exactly when a Shutdown
\* won the compare-and-swap of the running flag during that call.
NilIffShutdownWon ==
    \A c \in OneConn :
        (cpc[c] = "done" /\ cres[c] # "none")
            => (cres[c] = NoErr <=> sdWon[c])

ShutdownNeverBlocked ==
    \A s \in SdProcs :
        (sdpc[s] = "push" /\ Hostname # "") ~> (sdpc[s] = "done")

\* C7: at most one Connect call is past its entry check.
OneConnectPastEntry ==
    Cardinality({c \in ConnProcs : Executing(c)}) <= 1

\* C8: whenever no Connect call is executing the running flag is false, and
\* a Connect call made by the one caller, so after its previous call
\* returned, is not rejected with EAlreadyConnected.
IdleMeansNotRunning ==
    /\ (\A c \in ConnProcs : ~Executing(c)) => running = 0
    /\ \A c \in OneConn : cres[c] # "EAlreadyConnected"

\* C9: once the reader has won the flag with a read error while Connect is
\* in its main loop, Connect returns to its caller (whatever it returns).
ReadErrorReturnsConnect ==
    \A c \in OneConn, r \in Conns :
        (cpc[c] = "loop" /\ rdpc[r] = "push") ~> (cpc[c] = "done")

\* C10: a disconnect notice taken by the main loop ends the loop and is
\* matched to no command, and Connect then returns EDisconnected, or nil if a
\* Shutdown won the flag.
DisconnectNoticeReturnsConnect ==
    /\ [][\A c \in OneConn, r \in Conns :
            (LoopInbox(c, r) /\ cast(rdpkt[r]) = "disconnectNotice") =>
                /\ cpc'[c] = "relock"
                /\ UNCHANGED <<cmdFiFo, exresp, respCount>>]_vars
    /\ \A c \in OneConn :
        (cpc[c] = "relock" /\ cerr[c] = "EDisconnected")
            ~> (cpc[c] = "done" /\ (cres[c] = "EDisconnected"
                                     \/ (cres[c] = NoErr /\ sdWon[c])))

\* C11: a Connect call that has closed the connection and waits for its
\* reader on c.reading (line 298) returns, whatever the server sent, and it
\* returns only in the step in which a reader signals c.reading.
DrainingCompletes ==
    /\ [][\A c \in OneConn : (cpc[c] = "reading" /\ cpc'[c] = "done") =>
            \E r \in Conns : rdpc[r] = "signal" /\ rdpc'[r] = "done"]_vars
    /\ \A c \in OneConn : (cpc[c] = "reading") ~> (cpc[c] = "done")

\* C12: the channel a Query returned has been sent at most one value, and
\* that value is the body of a BACKGROUND_JOB event carrying the Query's own
\* Job-UUID or the "" of the job drain.
JobChannelOneValue ==
    \A e \in ExProcs : qpc[e] = "chan" =>
        /\ Len(jchan[e]) <= 1
        /\ \A i \in 1..Len(jchan[e]) : jchan[e][i] \in {EmptyString, BodyOf(e)}

\* A Query returned its channel and bgJobDone sent the body of its event on
\* it; the job drain of the same session sent "" to the job of another Query.
BodyAndDrainDelivered ==
    \E e, f \in ExProcs, c \in OneConn :
        /\ qpc[e] = "chan"
        /\ jchan[e] = <<BodyOf(e)>>
        /\ jchan[f] = <<EmptyString>>
        /\ PastCancel(c)

\* The main loop of Connect is running, or is over with its job drain still
\* to come.
BeforeJobDrain(c) == cpc[c] \in {"loop", "handlers", "relock", "cancel", "drain"}

\* C13: the job drain at the end of a session sends "" to every job of the
\* table and leaves the table empty; a channel a Query returned that has no
\* value yet is still in the table of a session whose drain is to come, or is
\* held by a bgJobDone about to send; and such a channel gets its value once
\* the BACKGROUND_JOB event of its job has been dispatched or the main loop
\* has ended.
EveryJobGetsAValue ==
    /\ [][\A c \in OneConn : DrainDefault(c) =>
            /\ jobs' = {}
            /\ \A e \in ExProcs :
                  jchan'[e] = IF e \in jobs THEN Append(jchan[e], EmptyString)
                                             ELSE jchan[e]]_vars
    /\ [](\A e \in ExProcs : (qpc[e] = "chan" /\ jchan[e] = <<>>) =>
            \/ bgSend[e] > 0
            \/ e \in jobs /\ \E c \in OneConn : BeforeJobDrain(c))
    /\ \A e \in ExProcs, c \in OneConn :
        (qpc[e] = "chan" /\ (bgLookup[e] > 0 \/ cpc[c] \notin {"loop", "handlers"}))
            ~> (jchan[e] # <<>>)

\* A Query returned its channel while its job was in the table, and the job
\* drain at the end of the session sent "" on it.
ReturnedChannelDrained ==
    \E e \in ExProcs, c \in OneConn :
        /\ qpc[e] = "chan"
        /\ jchan[e] = <<EmptyString>>
        /\ jobs = {}
        /\ PastCancel(c)
        /\ bgLookup[e] = 0

\* What execute() returned to Query says that the bgapi command failed: no
\* packet, or a reply whose Reply-Text does not start with +OK.
ReplyIndicatesFailure(res) ==
    \/ res.ct = "nil"
    \/ res.ct = ptCommandReply /\ ~res.ok

\* C14: a Query whose immediate reply indicates failure has returned no
\* channel and has left no entry in the job table.
FailedQueryReleasesJob ==
    \A e \in ExProcs :
        (qpc[e] \in {"chan", "nil"} /\ ReplyIndicatesFailure(exres[e]))
            => (qpc[e] = "nil" /\ e \notin jobs)

\* C15: an event the main loop takes from the inbox is dispatched under its
\* own key, and the dispatch starts each handler as many goroutines as the
\* handler occurs in the registry list of that key at that moment (once for
\* each registration, none for a handler of another key only).
EventStartsItsHandlers ==
    /\ [][\A c \in OneConn, r \in Conns :
            (LoopInbox(c, r) /\ cast(rdpkt[r]) = "inboundEvent") =>
                /\ cpc'[c] = "handlers"
                /\ cevt'[c].name = rdpkt[r].name]_vars
    /\ [][\A c \in OneConn : LoopHandlers(c) =>
            /\ \A h \in HandlerFns :
                  hrun'[h] = hrun[h]
                             + Occurrences(h, handlers[cevt[c].name])
            /\ \A j \in JobIds :
                  bgLookup'[j] = bgLookup[j]
                      + (IF j = cevt[c].job
                         THEN Occurrences(bgJobDone, handlers[cevt[c].name])
                         ELSE 0)]_vars

\* The handler h1 was registered twice for CHANNEL_CREATE, and the one event
\* of that key the server sent started it twice.
HandlerRegisteredTwiceRunsTwice ==
    /\ handlers["CHANNEL_CREATE"] = <<"h1", "h1">>
    /\ hrun["h1"] = 2
    /\ pktCount = 4
    /\ \E c \in OneConn : cpc[c] = "loop"

\* C16: while handler goroutines are running, whether or not they ever
\* return, the main loop can take every step it has work for: it accepts the
\* command of a caller waiting in execute(), takes the packet the reader
\* hands over, and dispatches the event it holds; a goroutine (a handler
\* among them) waiting in on() for c.control gets it; and a dispatch once
\* begun is completed.
HandlersNeverStallLoop ==
    /\ [](\A c \in OneConn : (\E h \in HandlerFns : hrun[h] > 0) =>
            /\ cpc[c] = "loop" =>
                  /\ \A e \in ExProcs :
                        expc[e] = "select" => ENABLED LoopAccept(c, e)
                  /\ \A r \in Conns :
                        rdpc[r] = "send" => ENABLED LoopInbox(c, r)
            /\ cpc[c] = "handlers" => ENABLED LoopHandlers(c)
            /\ cpc[c] \in {"loop", "handlers"} =>
                  \A e \in ExProcs : opc[e] = "lock" => ENABLED OnRegister(e))
    /\ \A c \in OneConn : (cpc[c] = "handlers") ~> (cpc[c] = "loop")

\* With a goroutine of h1 still running, the loop accepted the subscription
\* command of a later On call and dispatched a second event to h1.
LoopWorkedWhileHandlerRan ==
    \E c \in OneConn, e \in ExProcs :
        /\ handlers["CHANNEL_CREATE"] = <<"h1">>
        /\ hrun["h1"] = 2
        /\ opc[e] = "exec"
        /\ e \in Members(accepted[c])
        /\ cpc[c] = "loop"

\* The callers whose on() has registered its handler for key k.
Registered(k) ==
    {e \in ExProcs : okey[e] = k /\ opc[e] \in {"check", "exec", "done"}}

\* C17: an on() call goes on to submit a subscription command exactly when
\* isRunning() holds and its handler is the first of its key; of the calls
\* that have registered a handler for a key exactly one, the one that found
\* the list empty, counts as the first; so at most one call submits a
\* subscription command for a key, however the calls race.
OneSubscriptionPerNewKey ==
    /\ [](\A k \in OnKeys :
            /\ Cardinality({e \in ExProcs :
                              okey[e] = k /\ opc[e] = "exec"}) <= 1
            /\ Registered(k) # {} =>
                  Cardinality({e \in Registered(k) : ofirst[e]}) = 1
            /\ Len(handlers[k]) = Cardinality(Registered(k)))
    /\ [][\A e \in ExProcs :
            /\ OnRegister(e) =>
                  (ofirst'[e] <=> Len(handlers[okey[e]]) = 0)
            /\ OnCheck(e) =>
                  ((opc'[e] = "exec" /\ expc'[e] = "select")
                      <=> (running = 1 /\ ofirst[e]))
            /\ OnCheck(e) =>
                  ((opc'[e] = "done" /\ expc'[e] = "idle")
                      <=> ~(running = 1 /\ ofirst[e]))]_vars

\* Two On calls for CHANNEL_CREATE, a key that was not in the subscription
\* of the handshake, were made during the session: one had its subscription
\* command accepted by the main loop, the other has returned without
\* submitting any.
RacingOnCallsSubscribeOnce ==
    \E c \in OneConn, e, f \in ExProcs :
        /\ cpc[c] = "loop"
        /\ batch[c] = {evBackgroundJob}
        /\ handlers["CHANNEL_CREATE"] = <<"h1", "h1">>
        /\ opc[e] = "exec" /\ e \in Members(accepted[c])
        /\ opc[f] = "done" /\ expc[f] = "idle"

\* C18: while Connect waits for the reply to the subscription command of its
\* handshake, that command names every key that has a handler; the main loop
\* is entered only on an OK reply to it; a key that has a handler during the
\* session and was not named has a first registrant that is about to submit,
\* or has submitted, its own subscription command (or found the running flag
\* cleared); and an on() call made while Connect is dialing or handshaking
\* gets to register its handler.
RegistrationNeverLost ==
    /\ [](\A c \in OneConn :
            /\ cpc[c] = "hs3" => batch[c] = HandledKeys(handlers)
            /\ cpc[c] \in {"loop", "handlers"} =>
                  \A k \in HandledKeys(handlers) \ batch[c] :
                      \E e \in Registered(k) :
                          /\ ofirst[e]
                          /\ opc[e] \in {"check", "exec"} \/ running = 0)
    /\ [][\A c \in OneConn, r \in Conns : HsSubscribed(c, r) =>
            (cpc'[c] = "loop" <=> isOkReply(rdpkt[r]))]_vars
    /\ \A c \in OneConn, e \in ExProcs :
        (opc[e] = "lock" /\ cpc[c] \in {"dial", "hs1", "hs2", "hs3"})
            ~> (opc[e] # "lock")

\* The packets of a completed handshake: auth/request, the OK reply to auth,
\* the OK reply to the subscription command.
HandshakeCompleted ==
    << [ct |-> ptAuthRequest, ok |-> FALSE],
       [ct |-> ptCommandReply, ok |-> TRUE],
       [ct |-> ptCommandReply, ok |-> TRUE] >>

\* While Connect is dialing or handshaking it has accepted no command; a
\* caller's command is accepted, and written, only by a main loop whose
\* handshake took auth/request and the two OK replies, whenever the caller
\* entered execute(); and execute() returns a packet without error only for
\* a command that was so accepted.
AcceptedOnlyAfterHandshake ==
    /\ [](\A c \in OneConn :
            cpc[c] \in {"idle", "dial", "hs1", "hs2", "hs3", "done"} =>
                accepted[c] = <<>> /\ cmdFiFo[c] = <<>>)
    /\ [][\A e \in ExProcs : (expc[e] = "select" /\ expc'[e] = "wait") =>
            \E c \in OneConn :
                /\ cpc[c] = "loop"
                /\ hsTaken[c] = HandshakeCompleted
                /\ accepted'[c] = Append(accepted[c], e)]_vars
    /\ [][\A e \in ExProcs : (exres[e] = NoRes /\ exres'[e].err = NoErr) =>
            expc[e] = "wait" /\ respCount[e] = 1]_vars

\* C19: no command is accepted or written before the handshake of the
\* session has completed, a command submitted earlier is accepted only by a
\* main loop that completed it, and an Execute that returns without error
\* had its command accepted by such a loop and answered.
NoCommandBeforeHandshake ==
    /\ AcceptedOnlyAfterHandshake
    /\ [](\A e \in ExProcs :
            (xpc[e] = "done" /\ xres[e].err = NoErr) =>
                exres[e].err = NoErr /\ respCount[e] = 1)

\* A caller entered execute() and its command is the first the main loop
\* accepted, right after the three packets of the handshake.
CommandAcceptedAfterHandshake ==
    \E c \in OneConn, e \in ExProcs :
        /\ cpc[c] = "loop"
        /\ hsTaken[c] = HandshakeCompleted
        /\ accepted[c] = <<e>>
        /\ expc[e] = "wait"
        /\ pktCount = 3

\* A submission that timed out was never accepted: no loop appended it to
\* its FIFO or wrote it, no response was sent to it, and nothing accepts it
\* afterwards; a submission leaves its select without being accepted only
\* with ETimeout or, taken by the drain of the outbox, with ENotConnected.
TimedOutNeverWritten ==
    /\ [](\A e \in ExProcs : exres[e].err = "ETimeout" =>
            /\ expc[e] = "done"
            /\ respCount[e] = 0
            /\ exresp[e] = NoPkt
            /\ \A c \in ConnProcs :
                   e \notin Members(accepted[c]) \cup Members(cmdFiFo[c]))
    /\ [][\A e \in ExProcs : exres[e].err = "ETimeout" =>
            /\ exres'[e] = exres[e]
            /\ expc'[e] = "done"]_vars

\* C20: a submission whose Timeout fires before the main loop accepts it is
\* never appended to the FIFO and never written, by this session or a later
\* one, and the Execute that made it returns ("", ETimeout).
TimedOutExecuteReturnsETimeout ==
    /\ TimedOutNeverWritten
    /\ [](\A e \in ExProcs :
            (xpc[e] = "done" /\ exres[e].err = "ETimeout") =>
                xres[e] = [result |-> EmptyString, err |-> "ETimeout"])

\* A packet other than an OK reply taken as the reply to auth leaves Connect
\* with EAuthenticationFailed and on its exit path, where no subscription
\* command is written, no command is accepted and the main loop is not
\* entered; the error is replaced only by the EShutdown a Shutdown caller
\* is sending (line 289), and a Connect that returns with it returns it,
\* with the flag false and the mutex free.
AuthFailureEndsAttempt ==
    /\ [][\A c \in OneConn, r \in Conns :
            (cpc[c] = "hs2" /\ rdpc[r] = "send" /\ rdpc'[r] = "read"
                 /\ ~isOkReply(rdpkt[r])) =>
                /\ cerr'[c] = "EAuthenticationFailed"
                /\ cpc'[c] = "unrun"
                /\ batch'[c] = {}]_vars
    /\ [](\A c \in OneConn : cerr[c] = "EAuthenticationFailed" =>
            /\ cpc[c] \in {"unrun", "errwait", "reading"}
            /\ batch[c] = {}
            /\ accepted[c] = <<>>
            /\ cmdFiFo[c] = <<>>)
    /\ [][\A c \in OneConn :
            (cerr[c] = "EAuthenticationFailed"
                 /\ cerr'[c] # "EAuthenticationFailed") =>
                \/ /\ cpc'[c] = "done"
                   /\ cres'[c] = "EAuthenticationFailed"
                   /\ running' = 0
                   /\ control' = "free"
                \/ /\ cpc'[c] = "reading"
                   /\ cerr'[c] = "EShutdown"
                   /\ \E sd \in SdProcs :
                          sdpc[sd] = "push" /\ sdpc'[sd] = "done"]_vars

\* C21: a reply to auth that is not an OK reply makes Connect fail with
\* EAuthenticationFailed: no subscription command is written, no command is
\* accepted in that attempt, and Connect returns, the client idle again.
AuthFailureFailsConnect ==
    /\ AuthFailureEndsAttempt
    /\ \A c \in OneConn :
          (cerr[c] = "EAuthenticationFailed") ~> (cpc[c] = "done")

\* A first packet that is not auth/request leaves Connect with
\* EUnexpectedResponse and on its exit path without the write of the
\* password (whose outcome would be nil or a write error): the handshake has
\* taken nothing it goes on with, and the reply to auth is never awaited.
\* The error is replaced only by the EShutdown a Shutdown caller is sending,
\* and a Connect that returns with it returns it.
UnexpectedFirstPacketEndsAttempt ==
    /\ [][\A c \in OneConn, r \in Conns :
            (cpc[c] = "hs1" /\ rdpc[r] = "send" /\ rdpc'[r] = "read"
                 /\ packetType(rdpkt[r]) # ptAuthRequest) =>
                /\ cerr'[c] = "EUnexpectedResponse"
                /\ cpc'[c] = "unrun"
                /\ hsTaken'[c] = <<>>]_vars
    /\ [](\A c \in OneConn : cerr[c] = "EUnexpectedResponse" =>
            /\ cpc[c] \in {"unrun", "errwait", "reading"}
            /\ hsTaken[c] = <<>>
            /\ batch[c] = {}
            /\ accepted[c] = <<>>)
    /\ [][\A c \in OneConn :
            (cerr[c] = "EUnexpectedResponse"
                 /\ cerr'[c] # "EUnexpectedResponse") =>
                \/ /\ cpc'[c] = "done"
                   /\ cres'[c] = "EUnexpectedResponse"
                \/ /\ cpc'[c] = "reading"
                   /\ cerr'[c] = "EShutdown"
                   /\ \E sd \in SdProcs :
                          sdpc[sd] = "push" /\ sdpc'[sd] = "done"]_vars

\* C22: a first packet after the dial that is not auth/request makes Connect
\* fail with EUnexpectedResponse, the password not written: Connect returns.
UnexpectedFirstPacketFailsConnect ==
    /\ UnexpectedFirstPacketEndsAttempt
    /\ \A c \in OneConn :
          (cerr[c] = "EUnexpectedResponse") ~> (cpc[c] = "done")

\* A reply that is not OK: a command/reply whose Reply-Text does not start
\* with +OK.
IsFailedReply(p) == packetType(p) = ptCommandReply /\ ~p.ok

\* C23: the main loop hands a reply that is not OK to the command at the
\* head of the FIFO and goes on: Connect stays in its loop with no error,
\* the flag, the connection and the mutex as they were, the rest of the FIFO,
\* the job table and the handler registry unchanged; and a main loop accepts
\* the command of every caller waiting to submit one.
FailedReplyKeepsSession ==
    /\ [][\A c \in OneConn, r \in Conns :
            (cpc[c] = "loop" /\ rdpc[r] = "send" /\ rdpc'[r] = "read"
                 /\ IsFailedReply(rdpkt[r])) =>
                /\ cpc'[c] = "loop"
                /\ cerr'[c] = NoErr
                /\ <<running, conn, sock, control>>' =
                       <<running, conn, sock, control>>
                /\ <<jobs, jchan, handlers, accepted>>' =
                       <<jobs, jchan, handlers, accepted>>
                /\ IF cmdFiFo[c] = <<>>
                   THEN UNCHANGED <<cmdFiFo, exresp, respCount>>
                   ELSE /\ cmdFiFo'[c] = Tail(cmdFiFo[c])
                        /\ exresp' = [exresp EXCEPT
                                         ![Head(cmdFiFo[c])] = rdpkt[r]]]_vars
    /\ [](\A c \in OneConn, e \in ExProcs :
            (cpc[c] = "loop" /\ expc[e] = "select") =>
                ENABLED LoopAccept(c, e))

\* The fourth packet, a reply that is not OK, went to the first command, and
\* the session went on: the fifth packet answered the second command, the
\* loop is still running and the job of the first command is in the table.
SessionWentOnAfterFailedReply ==
    \E c \in OneConn :
        /\ cpc[c] = "loop"
        /\ running = 1
        /\ Len(deliv[c]) = 2
        /\ deliv[c][1][1] = "e1"
        /\ IsFailedReply(deliv[c][1][2])
        /\ deliv[c][2][1] = "e2"
        /\ "e1" \in jobs

\* C24: a call whose command was answered with a reply that is not OK
\* returns ECommandFailed from execute(), whose error Execute, Query and on()
\* hand to their caller, and no other call returns that error.
FailedReplyReportsECommandFailed ==
    \A e \in ExProcs :
        /\ (expc[e] = "done" /\ IsFailedReply(exres[e])) =>
               exres[e].err = "ECommandFailed"
        /\ exres[e].err = "ECommandFailed" =>
               (expc[e] = "done" /\ IsFailedReply(exres[e]))

\* C25: Execute returns the same with PreventSocketBlocking as without it:
\* when the submission failed (timeout, not connected, disconnect before
\* the reply) it returns what the plain variant returns for that failure, ""
\* and the error of execute(); and it returns a nil error only with the
\* result of the command, not with the "" of a session that ended first.
ExecuteSameEitherWay ==
    \A e \in ExProcs : xpc[e] = "done" =>
        /\ exres[e].err # NoErr => xres[e] = ExecutePlain(exres[e])
        /\ xres[e].err = NoErr => xres[e].result # EmptyString

\* C26: after any sequence of add, set and del, getAll of every name is the
\* list of the values added under that name (in any spelling) and not
\* deleted since, in the order they were added, and get of the name is the
\* first of them, or "" when there is none; add(n, v) puts v at the end of
\* what getAll(n) was.
GetIsFirstOfGetAll ==
    /\ [](\A n \in HdrNames :
            /\ getAll(hdr, n) = hlog[ToLower(n)]
            /\ get(hdr, n) = IF getAll(hdr, n) = <<>> THEN ""
                             ELSE Head(getAll(hdr, n)))
    /\ [][hop'.op = "add" =>
            getAll(hdr', hop'.name) =
                Append(getAll(hdr, hop'.name), hop'.value)]_vars

\* A name holds two different values, added in the order baz, bar under two
\* spellings, while an entry of another name stands between them.
TwoValuesInInsertionOrder ==
    /\ Len(hdr) = 3
    /\ hop.op = "add"
    /\ getAll(hdr, "foo") = <<"baz", "bar">>
    /\ hdr[1].name # hdr[3].name
    /\ ~matchName(hdr[2], "foo")

\* The entries of h whose name is not name in any spelling, in their order.
Others(h, name) == SelectSeq(h, LAMBDA e : ToLower(e.name) # ToLower(name))

\* The spellings of a name.
Spellings(name) == {m \in HdrNames : ToLower(m) = ToLower(name)}

\* C27: after del(n) no entry is left under any spelling of n, so get of
\* every spelling is ""; the other entries are all there in the order they
\* had; and a del of a name without an entry leaves the list as it was.
DelRemovesEverySpelling ==
    hop.op = "del" =>
        /\ \A m \in Spellings(hop.name) :
               get(hdr, m) = "" /\ getAll(hdr, m) = <<>>
        /\ hdr = Others(hprev, hop.name)
        /\ (\A m \in Spellings(hop.name) : getAll(hprev, m) = <<>>) =>
               hdr = hprev

\* del("Foo") on a list that held the name as foo and as Foo, with an entry of
\* another name between the two: that entry alone is left.
DelRemovedBothSpellings ==
    /\ hop.op = "del"
    /\ hop.name = "Foo"
    /\ Len(hprev) = 3
    /\ hprev[1].name = "foo"
    /\ hprev[3].name = "Foo"
    /\ hdr = <<hprev[2]>>

\* C28: after set(n, v) the value v is the one entry under every spelling
\* of n (getAll is <<v>>, get is v), the entries of other names are the same
\* in the same order, in front of the new entry, and a second set(n, v)
\* changes nothing, on this list and on every list.
SetReplacesEverySpelling ==
    /\ hop.op = "set" =>
        /\ \A m \in Spellings(hop.name) :
               getAll(hdr, m) = <<hop.value>> /\ get(hdr, m) = hop.value
        /\ Others(hdr, hop.name) = Others(hprev, hop.name)
        /\ hdr = Append(Others(hprev, hop.name),
                        [name |-> hop.name, value |-> hop.value])
        /\ set(hdr, hop.name, hop.value) = hdr
    /\ \A n \in HdrNames, v \in HdrValues :
           set(set(hdr, n, v), n, v) = set(hdr, n, v)

\* set("VAL", "baz") on a list that held the name as val and as VAL with the
\* value bar, and an entry of another name: that entry and the new one are
\* left.
SetReplacedBothSpellings ==
    /\ hop = [op |-> "set", name |-> "VAL", value |-> "baz"]
    /\ Len(hprev) = 3
    /\ getAll(hprev, "val") = <<"bar", "bar">>
    /\ {hprev[i].name : i \in 1..3} \cap Spellings("val") = {"val", "VAL"}
    /\ Len(hdr) = 2
    /\ ~matchName(hdr[1], "val")

\* The keys of the list with a subclass, and those without, in their order.
CustomKeys(names) == SelectSeq(names, LAMBDA k : k.Subclass # "")
NormalKeys(names) == SelectSeq(names, LAMBDA k : k.Subclass = "")

\* C29: the command for no key is `events plain all`; for a list of keys it
\* is `events plain`, then the name of every key without subclass in the
\* order of the list, then, if and only if the list has a custom key, the
\* token CUSTOM once and the subclass of every custom key in the order of the
\* list.
SubscriptionCommandShape ==
    LET n == NormalKeys(subIn)
        c == CustomKeys(subIn)
        tokens == SubSeq(subCmd, 3, Len(subCmd))
    IN /\ Len(subCmd) >= 3
       /\ SubSeq(subCmd, 1, 2) = <<"events", "plain">>
       /\ subIn = <<>> => tokens = <<"all">>
       /\ subIn # <<>> =>
            /\ Len(tokens) = Len(n) + Len(c) + (IF c = <<>> THEN 0 ELSE 1)
            /\ \A i \in 1..Len(n) : tokens[i] = n[i].Name
            /\ c # <<>> => tokens[Len(n) + 1] = "CUSTOM"
            /\ \A i \in 1..Len(c) : tokens[Len(n) + 1 + i] = c[i].Subclass
            /\ Cardinality({i \in 1..Len(tokens) : tokens[i] = "CUSTOM"}) =
                   (IF c = <<>> THEN 0 ELSE 1)

\* Custom and other keys alternate in the list, a custom key first; the
\* command names the two other keys, then CUSTOM and the two subclasses.
InterleavedKeysGrouped ==
    /\ subIn = << Key("CUSTOM", "sofia::register"), Key("HEARTBEAT", ""),
                  Key("CUSTOM", "conference::create"),
                  Key("CHANNEL_CREATE", "") >>
    /\ subCmd = << "events", "plain", "HEARTBEAT", "CHANNEL_CREATE", "CUSTOM",
                   "sofia::register", "conference::create" >>

\* What a failed parse leaves as the headers of the Event (line 124).
ParseErrorHeaders ==
    <<[name |-> "Event-Name",
       value |-> "malformed MIME header line: garbage"]>>

\* C30: the raw body of an Event is parsed at most once, by the first call
\* of Get, Name, Set, Body or String; every later call works on the headers
\* that parse produced, changed by Set only, so a Get returns the first
\* value of the name in them and a Get repeated returns the same; and after
\* a parse that failed the headers are the one header Event-Name with the
\* text of the error, so that Get of another name returns "".
EventParsedOnce ==
    /\ [](/\ evParses <= 1
          /\ ev.nil <=> evParses = 0
          /\ ev.nil <=> evOut = NoOut)
    /\ [](~ev.nil => ev.list = evRef)
    /\ [](evOut.op = "Get" => evOut.res = StrRes(get(evRef, evOut.name)))
    /\ [][(evOut.op = "Get" /\ evOut'.op = "Get"
              /\ evOut'.name = evOut.name) => evOut'.res = evOut.res]_vars
    /\ [][(evRaw = "bad" /\ ev.nil /\ ~ev'.nil) =>
              IF evOut'.op = "Set"
              THEN ev'.list = set(ParseErrorHeaders, evOut'.name,
                                  evOut'.res[2])
              ELSE ev'.list = ParseErrorHeaders /\ ev'.body = ""]_vars
    /\ [](evRef = ParseErrorHeaders =>
            \A n \in EvNames :
                get(ev.list, n) = IF ToLower(n) = "event-name"
                                  THEN ParseErrorHeaders[1].value ELSE "")

\* The body was parsed once, a Set changed a header the parse had produced,
\* and a Get made after it returned the value set, while the header the Set
\* did not touch is as parsed.
LaterGetSeesParsedAndSet ==
    /\ evRaw = "job"
    /\ evParses = 1
    /\ evOut = [op |-> "Get", name |-> "Job-UUID", res |-> StrRes("x")]
    /\ get(ev.list, "event-name") = "BACKGROUND_JOB"
    /\ ev.body = "hello"

\* What SetBody does when its value differs from the body field as the call
\* finds it: afterwards Body() is the value and Content-Length its length.
SetBodyOfDifferentValue ==
    [][(evOut'.op = "SetBody" /\ evOut'.res # StrRes(ev.body)) =>
           /\ ~ev'.nil
           /\ StrRes(ev'.body) = evOut'.res
           /\ get(ev'.list, "Content-Length") =
                  Itoa(ByteLen(evOut'.res[2]))]_vars

\* C31: after SetBody(v), on an Event parsed before or not and for any v,
\* the empty string included, Body() returns v and Get("Content-Length")
\* returns the length of v in decimal.
SetBodySetsBodyAndLength ==
    evOut.op = "SetBody" =>
        \A o \in ReadOutcomes(ev, RawBodies[evRaw]) :
            /\ StrRes(o.e.body) = evOut.res
            /\ get(o.e.list, "Content-Length") = Itoa(ByteLen(evOut.res[2]))

\* SetBody("") was called on an Event not parsed yet whose raw packet has a
\* body: the Event is still not parsed.
SetBodyEmptyOnUnparsed ==
    evOut = [op |-> "SetBody", name |-> "", res |-> StrRes("")] /\ ev.nil
        /\ RawBodies[evRaw].rest # ""

\* The main loop of c takes the packet reader r hands over.
LoopTakes(c, r) == cpc[c] = "loop" /\ rdpc[r] = "send" /\ rdpc'[r] # "send"

\* C32: the main loop's dispatch of an event, from taking it off the inbox
\* to starting its handlers, leaves the command FIFO as it was and sends on
\* no response channel; no event is ever put on a response channel; and a
\* packet that is put on one goes to the head of the FIFO as it was when the
\* packet was taken, events before it or not.
EventLeavesFifoAlone ==
    /\ [](\A c \in ConnProcs : \A i \in 1..Len(deliv[c]) :
              packetType(deliv[c][i][2]) # ptEventPlain)
    /\ [](\A e \in ExProcs : packetType(exresp[e]) # ptEventPlain)
    /\ [][\A c \in ConnProcs, r \in Conns :
              (LoopTakes(c, r) /\ packetType(rdpkt[r]) = ptEventPlain) =>
                  /\ cpc'[c] = "handlers"
                  /\ UNCHANGED <<cmdFiFo, exresp, respCount, deliv>>]_vars
    /\ [][\A c \in ConnProcs : cpc[c] = "handlers" =>
              /\ UNCHANGED <<cmdFiFo, respCount, deliv>>
              /\ \A e \in ExProcs : exresp'[e] \in {exresp[e], NoPkt}]_vars
    /\ [][\A c \in ConnProcs, r \in Conns :
              (LoopTakes(c, r) /\ deliv'[c] # deliv[c]) =>
                  /\ cmdFiFo[c] # <<>>
                  /\ deliv'[c] =
                         Append(deliv[c], <<Head(cmdFiFo[c]), rdpkt[r]>>)
                  /\ exresp'[Head(cmdFiFo[c])] = rdpkt[r]
                  /\ cmdFiFo'[c] = Tail(cmdFiFo[c])]_vars

\* The main loop has taken an event while a command was written and not
\* answered yet, and the command is still the head of the FIFO.
EventBetweenWriteAndReply ==
    \E c \in ConnProcs :
        /\ cpc[c] = "handlers"
        /\ cevt[c].name = evHeartbeat
        /\ cmdFiFo[c] # <<>>
        /\ Head(cmdFiFo[c]) = Head(accepted[c])
        /\ exresp[Head(cmdFiFo[c])] = NoPkt

\* A packet the main loop neither dispatches as an event nor takes for the
\* end of the session: a reply, a result, or one of unknown type.
IsAnswer(p) == packetType(p) \notin {ptEventPlain, ptDisconnectNotice, "none"}

\* C33: a reply, result or unknown packet the main loop takes while the FIFO
\* is empty changes nothing: the loop goes on, the FIFO stays empty, nothing
\* is sent to a caller, the error, the flag, the connection, the job table
\* and the handlers are as before; the packet is in no response channel,
\* then or later, so a command accepted afterwards is not answered by it.
AnswerWithoutCommandDiscarded ==
    /\ [][\A c \in ConnProcs, r \in Conns :
              (LoopTakes(c, r) /\ IsAnswer(rdpkt[r]) /\ cmdFiFo[c] = <<>>) =>
                  /\ cpc'[c] = "loop"
                  /\ dropped'[c] = dropped[c] \cup {rdpkt[r].id}
                  /\ rdpkt'[r] = NoPkt
                  /\ UNCHANGED <<running, control, conn, sock, cerr, cres,
                                 cmdFiFo, expc, exresp, exres, respCount,
                                 accepted, deliv, cevt, jobVars,
                                 hdlVars>>]_vars
    /\ [](\A c \in ConnProcs :
              /\ \A e \in ExProcs : exresp[e].id \notin dropped[c]
              /\ \A i \in 1..Len(deliv[c]) : deliv[c][i][2].id \notin dropped[c]
              /\ \A r \in Conns : rdpkt[r].id \notin dropped[c])

\* A packet was discarded, a command was accepted after it, and the command
\* was answered by the packet that came next.
CommandAfterDiscardAnsweredByNext ==
    \E c \in ConnProcs, e \in ExProcs :
        /\ cpc[c] = "loop"
        /\ dropped[c] = {4}
        /\ accepted[c] = <<e>>
        /\ Len(deliv[c]) = 1
        /\ deliv[c][1][1] = e
        /\ deliv[c][1][2].id = 5

\* The main loop of c accepts a command and the write of it fails.
WriteFails(c) == cpc[c] = "loop" /\ cpc'[c] = "relock" /\ accepted'[c] # accepted[c]

\* Connect is on its exit path with the error of a failed write.
LeavingOnWriteError(c) ==
    cerr[c] = "EWrite" /\ accepted[c] # <<>>
        /\ cpc[c] \in {"relock", "cancel", "drain", "unrun", "errwait", "reading"}

\* A command whose write failed is in the FIFO, and its failure ends the loop
\* with the write error; the exit path sends nil to every command in the
\* FIFO, that one included; the error stays Connect's until Connect returns
\* it, or until Connect takes the EShutdown of a Shutdown caller.
WriteErrorEndsSession ==
    /\ [][\A c \in OneConn : WriteFails(c) =>
              /\ cerr'[c] = "EWrite"
              /\ \E e \in ExProcs :
                    /\ expc[e] = "select" /\ expc'[e] = "wait"
                    /\ cmdFiFo'[c] = Append(cmdFiFo[c], e)
                    /\ exresp'[e] = NoPkt]_vars
    /\ [](\A c \in OneConn : LeavingOnWriteError(c) =>
              /\ cmdFiFo[c] # <<>>
              /\ cmdFiFo[c][Len(cmdFiFo[c])] = accepted[c][Len(accepted[c])]
              /\ cpc[c] \in {"relock", "cancel"} =>
                     \A e \in CancelSet(cmdFiFo[c]) :
                         expc[e] = "wait" /\ exresp[e] = NoPkt
              /\ cpc[c] \notin {"relock", "cancel"} =>
                     \A e \in CancelSet(cmdFiFo[c]) :
                         \/ expc[e] = "wait" /\ exresp[e] = NilPkt
                         \/ expc[e] # "wait" /\ exresp[e] = NoPkt)
    /\ [][\A c \in OneConn :
              (cpc[c] = "cancel" /\ cpc'[c] # "cancel") =>
                  \A e \in ExProcs :
                      /\ e \in CancelSet(cmdFiFo[c]) =>
                             /\ exresp'[e] = NilPkt
                             /\ respCount'[e] = respCount[e] + 1
                      /\ e \notin CancelSet(cmdFiFo[c]) =>
                             /\ exresp'[e] = exresp[e]
                             /\ respCount'[e] = respCount[e]]_vars
    /\ [][\A c \in OneConn :
              (LeavingOnWriteError(c) /\ ~LeavingOnWriteError(c)') =>
                  \/ /\ cpc'[c] = "done"
                     /\ cres'[c] = "EWrite"
                  \/ /\ cpc[c] = "errwait" /\ cpc'[c] = "reading"
                     /\ cerr'[c] = "EShutdown"
                     /\ \E sd \in SdProcs :
                            sdpc[sd] = "push" /\ sdpc'[sd] = "done"]_vars

\* Connect on that exit path returns, or comes to wait in `<-c.reading` for
\* a reader that is held in its send on c.inbox or on c.errors.
WriteErrorReturnsUnlessReaderHeld ==
    \A c \in OneConn :
        LeavingOnWriteError(c) ~>
            \/ cpc[c] = "done"
            \/ cpc[c] = "reading"
                  /\ \E r \in Conns : rdpc[r] \in {"send", "push"}

\* C34: when the write of an accepted command fails in the main loop, the
\* loop ends, the command, already in the FIFO, gets nil with every other
\* command of the FIFO, and Connect returns: the write error, or nil when it
\* has taken a Shutdown's EShutdown.
WriteErrorFailsConnect ==
    /\ WriteErrorEndsSession
    /\ \A c \in OneConn : LeavingOnWriteError(c) ~> (cpc[c] = "done")

\* The reader that has read a packet with a framing anomaly reads no further
\* packet: it hands the packet over, calls close() with the error of the
\* anomaly and, if it changed the flag, sends that error on c.errors.
MisframedStopsReader ==
    /\ [](\A r \in Conns : rderr[r] \in FramingErrors =>
              /\ rdpc[r] \in {"send", "close", "push"}
              /\ rdpc[r] = "send" <=> rdpkt[r].id \in misframed)
    /\ [][\A r \in Conns : rderr[r] \in FramingErrors =>
              /\ pktCount' = pktCount
              /\ rderr'[r] # rderr[r] => rdpc'[r] = "signal"]_vars

\* C35: a packet with a framing anomaly (a Content-Length that is not a
\* number, a body shorter than Content-Length) stops the reader with that
\* error and is not handed to the inbox: no receiver takes it from the
\* reader, it is in no command's response channel and the main loop
\* dispatches it to no handler.
MisframedNeverHandedOver ==
    /\ MisframedStopsReader
    /\ [][\A r \in Conns : (rdpc[r] = "send" /\ rdpkt[r].id \in misframed) =>
              rdpc'[r] = "send"]_vars
    /\ [](\A e \in ExProcs : exresp[e].id \notin misframed)
    /\ [](\A c \in ConnProcs : \A i \in 1..Len(deliv[c]) :
              deliv[c][i][2].id \notin misframed)
    /\ [][\A c \in ConnProcs, r \in Conns :
              (LoopTakes(c, r) /\ cpc'[c] = "handlers") =>
                  rdpkt[r].id \notin misframed]_vars

\* A misframed result is in the response channel of a command.
MisframedResultAnswersCommand ==
    \E e \in ExProcs :
        exresp[e].id \in misframed /\ packetType(exresp[e]) = ptResult

StaleErrorNeverEndsSession ==
    /\ [][\A c \in OneConn, s \in SdProcs :
              (cpc[c] = "loop" /\ sdpc[s] = "push" /\ sdpc'[s] = "done") =>
                  sdWon[c]]_vars
    /\ [][\A c \in OneConn, r \in Conns :
              (cpc[c] = "loop" /\ rdpc[r] = "push" /\ rdpc'[r] = "signal") =>
                  rdconn[r] = conn]_vars

\* A main loop is running while a Shutdown caller that won the CAS before
\* this Connect call set the flag is still sending its EShutdown.
StaleShutdownPending ==
    \E c \in OneConn, s \in SdProcs :
        cpc[c] = "loop" /\ sdpc[s] = "push" /\ ~sdWon[c] /\ running = 1

\* C38: every channel that is in the job table is empty, and has never been
\* sent on; a send on a job's channel, by bgJobDone or by the drain, finds
\* the channel empty, so it does not block, and leaves the job out of the
\* table.
JobTableChannelsEmpty ==
    /\ [](\A e \in jobs : jchan[e] = <<>>)
    /\ [][\A e \in ExProcs : jchan'[e] # jchan[e] =>
              /\ jchan[e] = <<>>
              /\ Len(jchan'[e]) = 1
              /\ e \notin jobs']_vars

\* The drain has sent "" on the channel of a job whose Query had returned
\* it, and bgJobDone has sent the body of its event on that of another job.
DrainSentAfterJobDone ==
    \E e, f \in ExProcs :
        /\ e # f
        /\ qpc[e] = "chan" /\ jchan[e] = <<EmptyString>>
        /\ jchan[f] = <<BodyOf(f)>>
        /\ jobs = {}

=============================================================================
